---- MODULE Spec2Model ----
(***************************************************************************)
(* Model of the opencode-session store: the loader (data/loader) that      *)
(* joins project, session, message and part records into a snapshot, and   *)
(* the manager (data/manager) that deletes sessions and projects and       *)
(* prunes the frecency file.                                               *)
(*                                                                         *)
(* The disk is one record `fs`.  Identifiers are positive integers, the    *)
(* JavaScript value `undefined` of a record that parses but lacks a field  *)
(* is NoId.  A file is named after the id it was written for; what it      *)
(* holds is "ok" (well formed), "bad" (JSON.parse throws), "noid" (parses, *)
(* no string id) or "noproj" (a session that parses, no string projectID). *)
(***************************************************************************)
EXTENDS Integers, Sequences, FiniteSets, TLC

VARIABLES fs, locked, snapshot, last, calls, ui

vars == <<fs, locked, snapshot, last, calls, ui>>

\* ------------------------------------------------------------------ bounds
MaxProjects == 2
MaxSessions == 3
MaxMessages == 4
MaxCalls == 2
MaxLogs == 2
MaxParts == 5

ProjIds == 1..MaxProjects
SessIds == 1..MaxSessions
MsgIds == 1..MaxMessages
LogIds == 1..MaxLogs
PartIds == 1..MaxParts

\* `undefined`: the value of a missing id / projectID field after JSON.parse
NoId == 0

\* ------------------------------------------------------ layout of the store
\* join(SESSION_DIR, projectID, `${id}.json`): the project directory a session file lies in
Home(s) == ((s - 1) % MaxProjects) + 1

\* join(MESSAGE_DIR, sessionID, `${id}.json`): the session directory a message file lies in;
\* the last session owns no message
Owner(m) == ((m - 1) % (MaxSessions - 1)) + 1

\* join(PART_DIR, messageID, `${id}.json`): the part directory a part file lies in; the
\* first message has more than one part
PartOwner(q) == ((q - 1) % MaxMessages) + 1

\* Project.worktree of project p, a path as a sequence of characters: "/w", "/ww", ...
Worktree(p) == <<"/">> \o [i \in 1..p |-> "w"]

\* Session.directory of session s: a directory below the worktree of its project, the
\* same one for the sessions opened first
Directory(s) == Worktree(Home(s)) \o <<"/", IF s <= MaxProjects THEN "d" ELSE "e">>

\* Session.time.updated / created, Project.time.updated (ties between sessions 1 and 3)
SessUpdated(s) == (s + 1) % 2
SessCreated(s) == s
ProjUpdated(p) == MaxProjects + 1 - p

\* byte sizes reported by stat()
SessFileSize(s) == 1
MsgFileSize(m) == 2
PartDirSize(m) == 10 + m
DiffFileSize(s) == 5
TodoFileSize(s) == 7
LogFileSize(l) == 20 + l
StrayFileSize(s) == 3

\* The date in the name of log file l ("2026-01-17T071231.log"): a later file, a later date
LogDate(l) == l

\* Message.time.created of message m: the file readdir lists first holds the latest message
MsgCreated(m) == MaxMessages - m

\* Part.time?.start ?? 0 of part q: the parts written last carry no time
PartStart(q) == IF q > MaxMessages THEN 0 ELSE 1

\* `const v = x` followed by F(v): x is evaluated once, whatever F does with it
With(x, F(_)) == CHOOSE r \in {F(v) : v \in {x}} : TRUE

\* ------------------------------------------------------------------- paths
\* A path of the store: the root directory it lies under and the id it is keyed by.
Path(kind, id) == [kind |-> kind, id |-> id]

PathKinds == {"project", "sessiondir", "snapshot", "session", "message", "part", "diff", "todo",
              "frecency", "log"}

IdsOfKind(kind) ==
  CASE kind \in {"project", "sessiondir", "snapshot"} -> ProjIds
    [] kind \in {"session", "message", "diff", "todo"} -> SessIds
    [] kind = "part" -> MsgIds
    [] kind = "log" -> LogIds
    [] OTHER -> {NoId}

AllPaths == UNION {{Path(k, i) : i \in IdsOfKind(k)} : k \in PathKinds}

\* Does the path exist on disk?  A path built from `undefined` ("undefined.json") never does.
Exists(f, path) ==
  IF path.id \notin IdsOfKind(path.kind) THEN FALSE
  ELSE CASE path.kind = "project" -> f.projRec[path.id] # "absent"
         [] path.kind = "sessiondir" -> f.sessDir[path.id]
         [] path.kind = "snapshot" -> f.snapDir[path.id]
         [] path.kind = "session" -> f.sessRec[path.id] # "absent"
         [] path.kind = "message" -> f.msgDir[path.id]
         [] path.kind = "part" -> f.partDir[path.id]
         [] path.kind = "diff" -> f.diffFile[path.id]
         [] path.kind = "todo" -> f.todoFile[path.id]
         [] path.kind = "log" -> f.logFile[path.id]
         [] OTHER -> f.frecency.exists

\* The disk after the path (and, for a directory, everything in it) is gone.
Removed(f, path) ==
  IF path.id \notin IdsOfKind(path.kind) THEN f
  ELSE CASE path.kind = "project" -> [f EXCEPT !.projRec[path.id] = "absent"]
         [] path.kind = "sessiondir" ->
              [f EXCEPT !.sessDir[path.id] = FALSE,
                        !.sessRec = [s \in SessIds |->
                                       IF Home(s) = path.id THEN "absent" ELSE f.sessRec[s]]]
         [] path.kind = "snapshot" -> [f EXCEPT !.snapDir[path.id] = FALSE]
         [] path.kind = "session" -> [f EXCEPT !.sessRec[path.id] = "absent"]
         [] path.kind = "message" ->
              [f EXCEPT !.msgDir[path.id] = FALSE,
                        !.msgStray[path.id] = FALSE,
                        !.msgRec = [m \in MsgIds |->
                                      IF Owner(m) = path.id THEN "absent" ELSE f.msgRec[m]]]
         [] path.kind = "part" ->
              [f EXCEPT !.partDir[path.id] = FALSE,
                        !.partRec = [q \in PartIds |->
                                       IF PartOwner(q) = path.id THEN "absent" ELSE f.partRec[q]]]
         [] path.kind = "diff" -> [f EXCEPT !.diffFile[path.id] = FALSE]
         [] path.kind = "todo" -> [f EXCEPT !.todoFile[path.id] = FALSE]
         [] path.kind = "log" -> [f EXCEPT !.logFile[path.id] = FALSE]
         [] OTHER -> [f EXCEPT !.frecency = [exists |-> FALSE, lines |-> <<>>]]

\* The ids of a set, in the order readdir lists their files (ascending by name).
Listing(S, n) == SelectSeq([i \in 1..n |-> i], LAMBDA i : i \in S)

\* readdir(join(SESSION_DIR, p)): the session files of a project directory
SessionFiles(f, p) ==
  Listing({s \in SessIds : Home(s) = p /\ f.sessRec[s] # "absent"}, MaxSessions)

\* readdir(join(MESSAGE_DIR, s)): the message files of a session
MessageFiles(f, s) ==
  Listing({m \in MsgIds : Owner(m) = s /\ f.msgRec[m] # "absent"}, MaxMessages)

\* ------------------------------------------------------------------ loader
\* getDirSize(join(MESSAGE_DIR, s)): the bytes of every file of the directory, whatever its
\* name, 0 when the directory is missing
MessageDirSize(f, s) ==
  LET files == MessageFiles(f, s)
      Sum[i \in 0..Len(files)] == IF i = 0 THEN 0 ELSE Sum[i - 1] + MsgFileSize(files[i])
  IN IF f.msgDir[s]
     THEN Sum[Len(files)] + (IF f.msgStray[s] THEN StrayFileSize(s) ELSE 0)
     ELSE 0

\* getDirSize(join(PART_DIR, messageID)), 0 when missing
PartSize(f, m) == IF m \in MsgIds /\ f.partDir[m] THEN PartDirSize(m) ELSE 0

\* getFileSize of the diff, todo and session record files, 0 when missing
DiffSize(f, s) == IF s \in SessIds /\ f.diffFile[s] THEN DiffFileSize(s) ELSE 0
TodoSize(f, s) == IF s \in SessIds /\ f.todoFile[s] THEN TodoFileSize(s) ELSE 0
SessionFileSize(f, s) == IF s \in SessIds /\ f.sessRec[s] # "absent" THEN SessFileSize(s) ELSE 0

\* (a count of the message files that parse)
getSessionMessageCountOfParsed(f, s) ==
  IF s \in SessIds /\ f.msgDir[s]
  THEN Len(SelectSeq(MessageFiles(f, s), LAMBDA m : f.msgRec[m] # "bad"))
  ELSE 0

\* getSessionMessageCount: readdir(...).filter(f => f.endsWith(".json")).length, 0 on error.
\* MessageFiles are the .json files; a file of another name (f.msgStray) is not counted.
getSessionMessageCount(f, s) == IF s \in SessIds /\ f.msgDir[s] THEN Len(MessageFiles(f, s)) ELSE 0

\* The loop of getSessionSize over the message files: a file that does not parse is
\* skipped; join(PART_DIR, undefined) throws inside the try, which ends the loop.
RECURSIVE PartSizes(_, _, _, _)
PartSizes(f, files, i, acc) ==
  IF i > Len(files) THEN acc
  ELSE LET rec == f.msgRec[files[i]]
       IN CASE rec = "bad" -> PartSizes(f, files, i + 1, acc)
            [] rec = "noid" -> acc
            [] OTHER -> PartSizes(f, files, i + 1, acc + PartSize(f, files[i]))

\* getSessionSize(sessionID) for a string sessionID
getSessionSize(f, s) ==
  MessageDirSize(f, s)
  + (IF f.msgDir[s] THEN PartSizes(f, MessageFiles(f, s), 1, 0) ELSE 0)
  + DiffSize(f, s) + TodoSize(f, s)

\* String.prototype.startsWith on paths
StartsWith(path, prefix) ==
  Len(prefix) <= Len(path) /\ SubSeq(path, 1, Len(prefix)) = prefix

\* (a directoryExists that answers for the parent directory)
directoryExistsOfParent(f, path) ==
  \E n \in 1..Len(path) : path[n] = "/" /\ (IF n = 1 THEN <<"/">> ELSE SubSeq(path, 1, n - 1)) \in f.dirs
       /\ \A k \in (n + 1)..Len(path) : path[k] # "/"

\* directoryExists(path): existsSync on a directory outside the store
directoryExists(f, path) == path \in f.dirs

\* loadProjects: the ids of the project files that parse
loadProjects(f) == {p \in ProjIds : f.projRec[p] = "ok"}

\* The SessionInfo pushed by loadSessions for session file s
SessionInfoOf(f, projects, s) ==
  [id |-> s,
   projectID |-> IF f.sessRec[s] = "noproj" THEN NoId ELSE Home(s),
   directory |-> Directory(s),
   created |-> SessCreated(s),
   updated |-> SessUpdated(s),
   sizeBytes |-> SessionFileSize(f, s) + getSessionSize(f, s),
   messageCount |-> getSessionMessageCount(f, s),
   isOrphan |-> ~directoryExists(f, Directory(s)),
   projectWorktree |-> IF Home(s) \in projects THEN Worktree(Home(s)) ELSE <<"/">>]

\* (a sort that puts an element before the elements it compares equal to)
RECURSIVE InsertBeforeEqual(_, _)
InsertBeforeEqual(sorted, x) ==
  With(sorted, LAMBDA s :
    IF s = <<>> THEN <<x>>
    ELSE IF Head(s).updated > x.updated
         THEN <<Head(s)>> \o InsertBeforeEqual(Tail(s), x)
         ELSE <<x>> \o s)

\* Array.prototype.sort with (a, b) => b.time.updated - a.time.updated: stable, descending
RECURSIVE InsertByUpdated(_, _)
InsertByUpdated(sorted, x) ==
  With(sorted, LAMBDA s :
    IF s = <<>> THEN <<x>>
    ELSE IF Head(s).updated >= x.updated
         THEN <<Head(s)>> \o InsertByUpdated(Tail(s), x)
         ELSE <<x>> \o s)

RECURSIVE SortByUpdated(_)
SortByUpdated(seq) ==
  With(seq, LAMBDA s :
    IF s = <<>> THEN <<>>
    ELSE InsertByUpdated(SortByUpdated(SubSeq(s, 1, Len(s) - 1)), s[Len(s)]))

\* The session files in the order loadSessions walks them: project directories, then files
RECURSIVE WalkSessionFiles(_, _)
WalkSessionFiles(f, p) ==
  IF p > MaxProjects THEN <<>>
  ELSE (IF f.sessDir[p] THEN SessionFiles(f, p) ELSE <<>>) \o WalkSessionFiles(f, p + 1)

\* (a walk that a file that does not parse ends, as a session without id does)
RECURSIVE CollectSessionsUntilUnparsable(_, _, _, _, _)
CollectSessionsUntilUnparsable(f, projects, files, i, acc) ==
  With(acc, LAMBDA sessions :
    IF i > Len(files) THEN sessions
    ELSE LET rec == f.sessRec[files[i]]
         IN CASE rec \in {"bad", "noid"} -> sessions
              [] OTHER -> CollectSessionsUntilUnparsable(f, projects, files, i + 1,
                            Append(sessions, SessionInfoOf(f, projects, files[i]))))

\* The loop of loadSessions: a file that does not parse is skipped; for a session without
\* a string id getSessionSize throws outside its try, which ends the whole walk.
RECURSIVE CollectSessions(_, _, _, _, _)
CollectSessions(f, projects, files, i, acc) ==
  With(acc, LAMBDA sessions :
    IF i > Len(files) THEN sessions
    ELSE LET rec == f.sessRec[files[i]]
         IN CASE rec = "bad" -> CollectSessions(f, projects, files, i + 1, sessions)
              [] rec = "noid" -> sessions
              [] OTHER -> CollectSessions(f, projects, files, i + 1,
                            Append(sessions, SessionInfoOf(f, projects, files[i]))))

loadSessions(f, projects) ==
  With(WalkSessionFiles(f, 1), LAMBDA files :
    SortByUpdated(CollectSessions(f, projects, files, 1, <<>>)))

\* (a reduce without its initial value 0, which leaves the first session out of the sum)
RECURSIVE SumSizeBytesButFirst(_)
SumSizeBytesButFirst(sessions) ==
  IF Len(sessions) <= 1 THEN 0
  ELSE sessions[Len(sessions)].sizeBytes
       + SumSizeBytesButFirst(SubSeq(sessions, 1, Len(sessions) - 1))

\* reduce((sum, s) => sum + s.sizeBytes, 0)
RECURSIVE SumSizeBytes(_)
SumSizeBytes(sessions) ==
  With(sessions, LAMBDA s :
    IF s = <<>> THEN 0 ELSE Head(s).sizeBytes + SumSizeBytes(Tail(s)))

\* (sessionsByProject as a list with one key per session instead of a Map)
ProjectKeysRepeated(sessions, seen) == [i \in DOMAIN sessions |-> sessions[i].projectID]

\* The keys of sessionsByProject in insertion order
RECURSIVE ProjectKeys(_, _)
ProjectKeys(sessions, seen) ==
  With(sessions, LAMBDA s :
    IF s = <<>> THEN <<>>
    ELSE IF Head(s).projectID \in seen THEN ProjectKeys(Tail(s), seen)
         ELSE <<Head(s).projectID>> \o ProjectKeys(Tail(s), seen \cup {Head(s).projectID}))

\* (Math.min and Math.max taken for each other)
MinOfLargest(S) == CHOOSE x \in S : \A y \in S : x >= y
\* Math.min(...), Math.max(...)
MinOf(S) == CHOOSE x \in S : \A y \in S : x <= y
MaxOf(S) == CHOOSE x \in S : \A y \in S : x >= y

\* (a placeholder whose isOrphan is read from the disk like that of a project record)
ProjectInfoOfDirectoryOnly(f, sessions, projects, key) ==
  With(SelectSeq(sessions, LAMBDA s : s.projectID = key), LAMBDA group :
  LET idx == DOMAIN group
  IN IF key \notin projects
     THEN [id |-> key,
           worktree |-> group[1].directory,
           created |-> MinOf({group[i].created : i \in idx}),
           updated |-> MaxOf({group[i].updated : i \in idx}),
           sessionCount |-> Len(group),
           totalSizeBytes |-> SumSizeBytes(group),
           isOrphan |-> ~directoryExists(f, group[1].directory),
           placeholder |-> TRUE,
           sessions |-> group]
     ELSE [id |-> key,
           worktree |-> Worktree(key),
           created |-> ProjUpdated(key),
           updated |-> ProjUpdated(key),
           sessionCount |-> Len(group),
           totalSizeBytes |-> SumSizeBytes(group),
           isOrphan |-> ~directoryExists(f, Worktree(key)),
           placeholder |-> FALSE,
           sessions |-> group])

\* The ProjectInfo of one key of sessionsByProject: a project record, or a placeholder
ProjectInfoOf(f, sessions, projects, key) ==
  With(SelectSeq(sessions, LAMBDA s : s.projectID = key), LAMBDA group :
  LET idx == DOMAIN group
  IN IF key \notin projects
     THEN [id |-> key,
           worktree |-> group[1].directory,
           created |-> MinOf({group[i].created : i \in idx}),
           updated |-> MaxOf({group[i].updated : i \in idx}),
           sessionCount |-> Len(group),
           totalSizeBytes |-> SumSizeBytes(group),
           isOrphan |-> TRUE,
           placeholder |-> TRUE,
           sessions |-> group]
     ELSE [id |-> key,
           worktree |-> Worktree(key),
           created |-> ProjUpdated(key),
           updated |-> ProjUpdated(key),
           sessionCount |-> Len(group),
           totalSizeBytes |-> SumSizeBytes(group),
           isOrphan |-> ~directoryExists(f, Worktree(key)),
           placeholder |-> FALSE,
           sessions |-> group])

\* (a loadProjectInfos without its second loop, over the projects that have no sessions)
loadProjectInfosOfSessions(f, sessions, projects) ==
  With(ProjectKeys(sessions, {}), LAMBDA keys :
    SortByUpdated([i \in DOMAIN keys |-> ProjectInfoOf(f, sessions, projects, keys[i])]))

loadProjectInfos(f, sessions, projects) ==
  With(ProjectKeys(sessions, {}), LAMBDA keys :
  LET used == {keys[i] : i \in DOMAIN keys}
      rest == Listing(projects \ used, MaxProjects)
      withSessions == [i \in DOMAIN keys |-> ProjectInfoOf(f, sessions, projects, keys[i])]
      without == [i \in DOMAIN rest |-> ProjectInfoOf(f, <<>>, projects, rest[i])]
  IN SortByUpdated(withSessions \o without))

\* logs.sort((a, b) => b.date.getTime() - a.date.getTime()): stable, descending
RECURSIVE SortByDate(_)
SortByDate(logs) ==
  IF logs = <<>> THEN <<>>
  ELSE LET x == logs[Len(logs)]
           sorted == SortByDate(SubSeq(logs, 1, Len(logs) - 1))
           before == SelectSeq(sorted, LAMBDA y : y.date >= x.date)
           after == SelectSeq(sorted, LAMBDA y : y.date < x.date)
       IN before \o <<x>> \o after

\* loadLogs: the .log files of LOG_DIR, most recent date first
loadLogs(f) ==
  LET files == Listing({l \in LogIds : f.logFile[l]}, MaxLogs)
  IN SortByDate([i \in DOMAIN files |->
                  [filename |-> files[i], date |-> LogDate(files[i]),
                   sizeBytes |-> LogFileSize(files[i])]])

\* messages.sort((a, b) => a.time.created - b.time.created): stable, ascending
RECURSIVE SortByCreated(_)
SortByCreated(messages) ==
  IF messages = <<>> THEN <<>>
  ELSE LET x == messages[Len(messages)]
           sorted == SortByCreated(SubSeq(messages, 1, Len(messages) - 1))
           before == SelectSeq(sorted, LAMBDA y : y.created <= x.created)
           after == SelectSeq(sorted, LAMBDA y : y.created > x.created)
       IN before \o <<x>> \o after

\* loadMessages(sessionID): the message files of the session that parse, oldest first;
\* nothing when the directory cannot be read (or join throws on an undefined id)
loadMessages(f, sessionID) ==
  LET files == IF sessionID \in SessIds /\ f.msgDir[sessionID]
               THEN MessageFiles(f, sessionID) ELSE <<>>
      parsed == SelectSeq(files, LAMBDA m : f.msgRec[m] # "bad")
  IN SortByCreated([i \in DOMAIN parsed |->
                     [id |-> IF f.msgRec[parsed[i]] = "noid" THEN NoId ELSE parsed[i],
                      created |-> MsgCreated(parsed[i])]])

\* readdir(join(PART_DIR, m)): the part files of a message
PartFiles(f, m) ==
  Listing({q \in PartIds : PartOwner(q) = m /\ f.partRec[q] # "absent"}, MaxParts)

\* parts.sort: by time.start (0 when absent), then by id
RECURSIVE SortByStart(_)
SortByStart(parts) ==
  IF parts = <<>> THEN <<>>
  ELSE LET x == parts[Len(parts)]
           precedes(y) == y.start < x.start \/ (y.start = x.start /\ y.id <= x.id)
           sorted == SortByStart(SubSeq(parts, 1, Len(parts) - 1))
           before == SelectSeq(sorted, precedes)
           after == SelectSeq(sorted, LAMBDA y : ~precedes(y))
       IN before \o <<x>> \o after

\* loadParts(messageID): the part files of the message that parse, in time and id order
loadParts(f, messageID) ==
  LET files == IF messageID \in MsgIds /\ f.partDir[messageID]
               THEN PartFiles(f, messageID) ELSE <<>>
      parsed == SelectSeq(files, LAMBDA q : f.partRec[q] # "bad")
  IN SortByStart([i \in DOMAIN parsed |-> [id |-> parsed[i], start |-> PartStart(parsed[i])]])

\* loadAllData: the snapshot of sessions, projects and logs
loadAllData(f) ==
  With(loadProjects(f), LAMBDA projects :
    With(loadSessions(f, projects), LAMBDA sessions :
      [sessions |-> sessions,
       projects |-> loadProjectInfos(f, sessions, projects),
       logs |-> loadLogs(f)]))

\* ----------------------------------------------------------------- manager
\* The session files of directory p that rm cannot unlink
LockedChildren(env, f, path) ==
  IF path.kind = "sessiondir" /\ path.id \in ProjIds
  THEN {s \in SessIds : Home(s) = path.id /\ f.sessRec[s] # "absent"
                        /\ Path("session", s) \in env.locked}
  ELSE {}

\* Does rm(path, {force: true, recursive}) throw?  Absence is no error under force; a path
\* that exists and cannot be unlinked (EACCES, EPERM, EBUSY, read-only device) is.
RmThrows(env, f, path) ==
  Exists(f, path) /\ (path \in env.locked \/ LockedChildren(env, f, path) # {})

\* The disk a throwing rm leaves: untouched, or (a recursive rm that got part of the way,
\* env.partial) without the children it could unlink.
RmFailed(env, f, path) ==
  IF path.kind = "sessiondir" /\ env.partial
  THEN [f EXCEPT !.sessRec = [s \in SessIds |->
          IF Home(s) = path.id /\ Path("session", s) \notin env.locked
          THEN "absent" ELSE f.sessRec[s]]]
  ELSE f

\* One `if (await safeRm(path)) filesDeleted++` (counted) or `await safeRm(path)` of a
\* sequence of steps; acc.threw: an exception is on its way to the enclosing catch.
safeRm(env, acc, path, counted) ==
  With(acc, LAMBDA a :
    IF a.threw THEN a
    ELSE LET fails == RmThrows(env, a.fs, path)
         IN [fs |-> IF fails THEN RmFailed(env, a.fs, path) ELSE Removed(a.fs, path),
             n |-> IF ~fails /\ counted THEN a.n + 1 ELSE a.n,
             threw |-> FALSE,
             trace |-> Append(a.trace, [path |-> path, ok |-> ~fails])])

\* path.join with an argument that is not a string throws a TypeError
JoinThrows(acc, id) == [acc EXCEPT !.threw = @ \/ id = NoId]

\* Step 1 of deleteSession: message.id of every message file that parses
RECURSIVE MessageIDs(_, _, _)
MessageIDs(f, files, i) ==
  IF i > Len(files) THEN <<>>
  ELSE LET rec == f.msgRec[files[i]]
       IN CASE rec = "bad" -> MessageIDs(f, files, i + 1)
            [] rec = "noid" -> <<NoId>> \o MessageIDs(f, files, i + 1)
            [] OTHER -> <<files[i]>> \o MessageIDs(f, files, i + 1)

\* Step 2 of deleteSession: the part directory of each message id
RECURSIVE DeleteParts(_, _, _, _)
\* (a deleteSession that clears the part root instead of the session's own parts)
DeletePartsOfAll(env, acc, ids, i) ==
  [acc EXCEPT !.fs.partDir = [m \in MsgIds |-> FALSE], !.n = @ + Len(ids)]

DeleteParts(env, acc, ids, i) ==
  With(acc, LAMBDA a :
    IF i > Len(ids) THEN a
    ELSE DeleteParts(env, safeRm(env, JoinThrows(a, ids[i]), Path("part", ids[i]), TRUE),
                     ids, i + 1))

\* bytesFreed of a deleteSession result: session.sizeBytes captured on entry, 0 in the catch
BytesFreedWrong(threw, sizeBytes) == sizeBytes

BytesFreed(threw, sizeBytes) == IF threw THEN 0 ELSE sizeBytes

\* (a deleteSession that removes the session record file before the other artifacts)
deleteSessionRecordFirst(env, f, session) ==
  LET acc0 == JoinThrows([fs |-> f, n |-> 0, threw |-> FALSE, trace |-> <<>>], session.id)
      messageIDs == IF ~acc0.threw /\ f.msgDir[session.id]
                    THEN MessageIDs(f, MessageFiles(f, session.id), 1) ELSE <<>>
      acc1 == safeRm(env, JoinThrows(acc0, session.projectID), Path("session", session.id), TRUE)
      acc2 == DeleteParts(env, acc1, messageIDs, 1)
      acc3 == safeRm(env, acc2, Path("message", session.id), TRUE)
      acc4 == safeRm(env, acc3, Path("diff", session.id), TRUE)
      acc5 == safeRm(env, acc4, Path("todo", session.id), TRUE)
  IN With(acc5, LAMBDA acc :
       [fs |-> acc.fs,
        trace |-> acc.trace,
        res |-> [success |-> ~acc.threw,
                 sessionID |-> session.id,
                 filesDeleted |-> acc.n,
                 bytesFreed |-> BytesFreed(acc.threw, session.sizeBytes),
                 error |-> acc.threw]])

deleteSession(env, f, session) ==
  LET acc0 == JoinThrows([fs |-> f, n |-> 0, threw |-> FALSE, trace |-> <<>>], session.id)
      messageIDs == IF ~acc0.threw /\ f.msgDir[session.id]
                    THEN MessageIDs(f, MessageFiles(f, session.id), 1) ELSE <<>>
      acc2 == DeleteParts(env, acc0, messageIDs, 1)
      acc3 == safeRm(env, acc2, Path("message", session.id), TRUE)
      acc4 == safeRm(env, acc3, Path("diff", session.id), TRUE)
      acc5 == safeRm(env, acc4, Path("todo", session.id), TRUE)
      acc6 == safeRm(env, JoinThrows(acc5, session.projectID), Path("session", session.id), TRUE)
  IN With(acc6, LAMBDA acc :
       [fs |-> acc.fs,
        trace |-> acc.trace,
        res |-> [success |-> ~acc.threw,
                 sessionID |-> session.id,
                 filesDeleted |-> acc.n,
                 bytesFreed |-> BytesFreed(acc.threw, session.sizeBytes),
                 error |-> acc.threw]])

\* (a deleteSessions that gives up at the first result with success=false)
RECURSIVE deleteSessionsUntilFailure(_, _, _)
deleteSessionsUntilFailure(env, f, sessions) ==
  IF sessions = <<>> THEN [fs |-> f, trace |-> <<>>, results |-> <<>>]
  ELSE With(deleteSession(env, f, Head(sessions)), LAMBDA first :
         With(IF first.res.success
              THEN deleteSessionsUntilFailure(env, first.fs, Tail(sessions))
              ELSE [fs |-> first.fs, trace |-> <<>>, results |-> <<>>], LAMBDA rest :
           [fs |-> rest.fs,
            trace |-> first.trace \o rest.trace,
            results |-> <<first.res>> \o rest.results]))

\* deleteSessions: one deleteSession after the other, one result per input
RECURSIVE deleteSessions(_, _, _)
deleteSessions(env, f, sessions) ==
  IF sessions = <<>> THEN [fs |-> f, trace |-> <<>>, results |-> <<>>]
  ELSE With(deleteSession(env, f, Head(sessions)), LAMBDA first :
         With(deleteSessions(env, first.fs, Tail(sessions)), LAMBDA rest :
           [fs |-> rest.fs,
            trace |-> first.trace \o rest.trace,
            results |-> <<first.res>> \o rest.results]))

\* (a cleanFrecencyForDirectory whose inner catch drops the line instead of keeping it)
cleanFrecencyDroppingInvalid(env, f, directory) ==
  LET lines == f.frecency.lines
      matches(l) == l.kind = "entry" /\ StartsWith(l.path, directory)
      filtered == SelectSeq(lines, LAMBDA l : l.kind = "entry" /\ ~matches(l))
  IN IF ~f.frecency.exists \/ Path("frecency", NoId) \in env.locked
     THEN [fs |-> f, removed |-> 0]
     ELSE [fs |-> [f EXCEPT !.frecency.lines = filtered],
           removed |-> Len(SelectSeq(lines, matches))]

\* (a cleanFrecencyForDirectory that takes a missing file for an empty one and writes it)
cleanFrecencyCreating(env, f, directory) ==
  LET lines == f.frecency.lines
      matches(l) == l.kind = "entry" /\ StartsWith(l.path, directory)
      filtered == SelectSeq(lines, LAMBDA l : l.kind # "empty" /\ ~matches(l))
  IN IF Path("frecency", NoId) \in env.locked
     THEN [fs |-> f, removed |-> 0]
     ELSE [fs |-> [f EXCEPT !.frecency = [exists |-> TRUE, lines |-> filtered]],
           removed |-> Len(SelectSeq(lines, matches))]

\* cleanFrecencyForDirectory: keep the lines that do not parse and the entries whose path
\* does not start with the directory; readFile or writeFile throwing is answered by 0.
cleanFrecencyForDirectory(env, f, directory) ==
  LET lines == f.frecency.lines
      matches(l) == l.kind = "entry" /\ StartsWith(l.path, directory)
      keep(l) == l.kind # "empty" /\ ~matches(l)
      filtered == SelectSeq(lines, keep)
  IN IF ~f.frecency.exists \/ Path("frecency", NoId) \in env.locked
     THEN [fs |-> f, removed |-> 0]
     ELSE [fs |-> [f EXCEPT !.frecency.lines = filtered],
           removed |-> Len(SelectSeq(lines, matches))]

\* (an rm without force: a file that is already absent makes it throw)
deleteLogWithoutForce(env, f, log) ==
  LET path == Path("log", log.filename)
      fails == RmThrows(env, f, path) \/ ~Exists(f, path)
  IN [fs |-> IF fails THEN f ELSE Removed(f, path),
      trace |-> <<[path |-> path, ok |-> ~fails]>>,
      res |-> [success |-> ~fails,
               filename |-> log.filename,
               bytesFreed |-> IF fails THEN 0 ELSE log.sizeBytes,
               error |-> fails]]

\* deleteLog: rm(log.path, {force: true}); a throwing rm is reported in the result
deleteLog(env, f, log) ==
  LET path == Path("log", log.filename)
      fails == RmThrows(env, f, path)
  IN [fs |-> IF fails THEN f ELSE Removed(f, path),
      trace |-> <<[path |-> path, ok |-> ~fails]>>,
      res |-> [success |-> ~fails,
               filename |-> log.filename,
               bytesFreed |-> IF fails THEN 0 ELSE log.sizeBytes,
               error |-> fails]]

\* deleteLogs: one deleteLog after the other, one result per input
RECURSIVE deleteLogs(_, _, _)
deleteLogs(env, f, logs) ==
  IF logs = <<>> THEN [fs |-> f, trace |-> <<>>, results |-> <<>>]
  ELSE With(deleteLog(env, f, Head(logs)), LAMBDA first :
         With(deleteLogs(env, first.fs, Tail(logs)), LAMBDA rest :
           [fs |-> rest.fs,
            trace |-> first.trace \o rest.trace,
            results |-> <<first.res>> \o rest.results]))

\* (a loop that tallies every result, whatever its success)
RECURSIVE TallyEvery(_, _)
TallyEvery(results, field) ==
  IF results = <<>> THEN 0
  ELSE (IF field = "sessions" THEN 1 ELSE Head(results)[field]) + TallyEvery(Tail(results), field)

\* The tallies of deleteProject's loop over the results of its sessions
RECURSIVE Tally(_, _)
Tally(results, field) ==
  IF results = <<>> THEN 0
  ELSE (IF Head(results).success
        THEN (IF field = "sessions" THEN 1 ELSE Head(results)[field]) ELSE 0)
       + Tally(Tail(results), field)

\* (a deleteProject that removes the project record file before the sessions)
deleteProjectRecordFirst(env, f, project) ==
  With(safeRm(env, [fs |-> f, n |-> 0, threw |-> FALSE, trace |-> <<>>],
              Path("project", project.id), TRUE), LAMBDA acc0 :
  With(deleteSessions(env, acc0.fs, project.sessions), LAMBDA deleted :
  LET acc2 == [fs |-> deleted.fs, n |-> acc0.n + Tally(deleted.results, "filesDeleted"),
               threw |-> FALSE, trace |-> acc0.trace \o deleted.trace]
      acc3 == safeRm(env, JoinThrows(acc2, project.id), Path("sessiondir", project.id), FALSE)
      acc4 == safeRm(env, acc3, Path("snapshot", project.id), TRUE)
  IN With(acc4, LAMBDA acc :
     With(IF acc.threw THEN [fs |-> acc.fs, removed |-> 0]
          ELSE cleanFrecencyForDirectory(env, acc.fs, project.worktree), LAMBDA cleaned :
       [fs |-> cleaned.fs,
        trace |-> acc.trace,
        results |-> deleted.results,
        res |-> [success |-> ~acc.threw,
                 projectID |-> project.id,
                 sessionsDeleted |-> Tally(deleted.results, "sessions"),
                 filesDeleted |-> acc.n,
                 bytesFreed |-> Tally(deleted.results, "bytesFreed"),
                 frecencyEntriesRemoved |-> cleaned.removed,
                 error |-> acc.threw]]))))

deleteProject(env, f, project) ==
  With(deleteSessions(env, f, project.sessions), LAMBDA deleted :
  LET acc1 == [fs |-> deleted.fs, n |-> Tally(deleted.results, "filesDeleted"),
               threw |-> FALSE, trace |-> deleted.trace]
      acc2 == safeRm(env, acc1, Path("project", project.id), TRUE)
      acc3 == safeRm(env, JoinThrows(acc2, project.id), Path("sessiondir", project.id), FALSE)
      acc4 == safeRm(env, acc3, Path("snapshot", project.id), TRUE)
  IN With(acc4, LAMBDA acc :
     With(IF acc.threw THEN [fs |-> acc.fs, removed |-> 0]
          ELSE cleanFrecencyForDirectory(env, acc.fs, project.worktree), LAMBDA cleaned :
       [fs |-> cleaned.fs,
        trace |-> acc.trace,
        results |-> deleted.results,
        res |-> [success |-> ~acc.threw,
                 projectID |-> project.id,
                 sessionsDeleted |-> Tally(deleted.results, "sessions"),
                 filesDeleted |-> acc.n,
                 bytesFreed |-> Tally(deleted.results, "bytesFreed"),
                 frecencyEntriesRemoved |-> cleaned.removed,
                 error |-> acc.threw]])))

\* getProjectSessionCount: the .json files of the project's session directory; 0 when
\* readdir (or the join before it, inside the try) throws
getProjectSessionCount(f, projectID) ==
  IF projectID \in ProjIds /\ f.sessDir[projectID] THEN Len(SessionFiles(f, projectID)) ELSE 0

\* cleanupEmptyProject; res.threw: the promise rejects (join outside any try)
cleanupEmptyProject(env, f, projectID, worktree) ==
  LET acc0 == [fs |-> f, n |-> 0, threw |-> FALSE, trace |-> <<>>]
      acc1 == safeRm(env, acc0, Path("project", projectID), FALSE)
      acc2 == safeRm(env, JoinThrows(acc1, projectID), Path("sessiondir", projectID), FALSE)
      acc3 == safeRm(env, acc2, Path("snapshot", projectID), FALSE)
  IN IF getProjectSessionCount(f, projectID) = 0
     THEN With(acc3, LAMBDA acc :
          With(IF acc.threw THEN [fs |-> acc.fs, removed |-> 0]
               ELSE cleanFrecencyForDirectory(env, acc.fs, worktree), LAMBDA cleaned :
            [fs |-> cleaned.fs, trace |-> acc.trace,
             res |-> [returned |-> ~acc.threw, threw |-> acc.threw]]))
     ELSE [fs |-> f, trace |-> <<>>, res |-> [returned |-> FALSE, threw |-> FALSE]]

\* ------------------------------------------------------------ initial disk
\* The frecency file: an entry for each worktree, one beneath the first worktree, a line
\* that does not parse and an entry of an unrelated directory.  A line is an "entry" (parses,
\* carries a path), "garbage" (JSON.parse throws), "nopath" (parses, reading path.startsWith
\* throws) or "empty" (a line of length 0); its text is taken up to the white space that
\* content.trim() strips at the two ends of the file.
Entry(path) == [kind |-> "entry", path |-> path]

CanonicalLines ==
  [p \in ProjIds |-> Entry(Worktree(p))]
  \o <<Entry(Worktree(1) \o <<"/", "x">>), [kind |-> "garbage", path |-> <<>>],
       Entry(<<"/", "z">>)>>

\* The store as opencode leaves it: every record well formed; a session that owns
\* messages has a message directory, a diff and a todo file, the last session has none.
CanonicalFs ==
  LET hasMessages(s) == \E m \in MsgIds : Owner(m) = s
  IN [projRec |-> [p \in ProjIds |-> "ok"],
      sessDir |-> [p \in ProjIds |-> TRUE],
      snapDir |-> [p \in ProjIds |-> TRUE],
      sessRec |-> [s \in SessIds |-> "ok"],
      msgDir |-> [s \in SessIds |-> hasMessages(s)],
      msgRec |-> [m \in MsgIds |-> "ok"],
      msgStray |-> [s \in SessIds |-> FALSE],
      partDir |-> [m \in MsgIds |-> TRUE],
      partRec |-> [q \in PartIds |-> "ok"],
      diffFile |-> [s \in SessIds |-> hasMessages(s)],
      todoFile |-> [s \in SessIds |-> hasMessages(s)],
      logFile |-> [l \in LogIds |-> TRUE],
      dirs |-> {<<"/">>} \cup {Worktree(p) : p \in ProjIds} \cup {Directory(s) : s \in SessIds},
      frecency |-> [exists |-> TRUE, lines |-> CanonicalLines]]

\* What may be off in the store when the tool starts: a path missing or not removable,
\* a record that does not parse or lacks its id / projectID, a message file missing,
\* a file that is not a .json file in a message directory, a part file that does not parse.
\* The deviation lies in the tree of the first project; the others are as opencode left them.
HomedAt(p) == {s \in SessIds : Home(s) = p}
DeviantSessions == {s \in SessIds : Home(s) = 1}
DeviantMessages == {m \in MsgIds : Owner(m) \in DeviantSessions}
DeviantParts == {q \in PartIds : PartOwner(q) = 1}
DeviantPaths ==
  {Path(k, 1) : k \in {"project", "sessiondir", "snapshot"}}
  \cup {Path(k, s) : k \in {"session", "message", "diff", "todo"}, s \in DeviantSessions}
  \cup {Path("part", m) : m \in DeviantMessages}
  \cup {Path("frecency", NoId), Path("log", MaxLogs)}

Deviations ==
  {[k |-> "none", kind |-> "none", id |-> NoId]}
  \cup {[k |-> k, kind |-> path.kind, id |-> path.id] :
          k \in {"missing", "locked"}, path \in DeviantPaths}
  \cup {[k |-> k, kind |-> "project", id |-> 1] : k \in {"bad"}}
  \cup {[k |-> k, kind |-> "session", id |-> s] :
          k \in {"bad", "noid", "noproj"}, s \in DeviantSessions}
  \cup {[k |-> k, kind |-> "msgfile", id |-> m] :
          k \in {"missing", "bad", "noid"}, m \in DeviantMessages}
  \cup {[k |-> "noproj", kind |-> "sessiondir", id |-> 1]}
  \cup {[k |-> "bad", kind |-> "partfile", id |-> q] : q \in DeviantParts}
  \cup {[k |-> "stray", kind |-> "message", id |-> s] : s \in DeviantSessions}
  \cup {[k |-> "missing", kind |-> kind, id |-> 1] : kind \in {"worktree", "directory"}}
  \cup {[k |-> k, kind |-> "line", id |-> 1] : k \in {"empty", "nopath"}}

\* The frecency lines with one more line after the first
WithLine(lines, kind) ==
  <<Head(lines), [kind |-> kind, path |-> <<>>]>> \o Tail(lines)

Deviate(f, d) ==
  CASE d.k = "missing" /\ d.kind = "msgfile" -> [f EXCEPT !.msgRec[d.id] = "absent"]
    [] d.k = "missing" /\ d.kind = "worktree" ->
         [f EXCEPT !.dirs = @ \ ({Worktree(d.id)} \cup {Directory(s) : s \in HomedAt(d.id)})]
    [] d.k = "missing" /\ d.kind = "directory" ->
         [f EXCEPT !.dirs = @ \ {Directory(d.id)}]
    [] d.kind = "line" -> [f EXCEPT !.frecency.lines = WithLine(@, d.k)]
    [] d.kind = "partfile" -> [f EXCEPT !.partRec[d.id] = d.k]
    [] d.k = "stray" -> IF f.msgDir[d.id] THEN [f EXCEPT !.msgStray[d.id] = TRUE] ELSE f
    [] d.k = "noproj" /\ d.kind = "sessiondir" ->
         [f EXCEPT !.sessRec = [s \in SessIds |-> IF Home(s) = d.id THEN "noproj" ELSE @[s]]]
    [] d.k = "missing" /\ d.kind \in PathKinds -> Removed(f, Path(d.kind, d.id))
    [] d.k \in {"bad", "noid", "noproj"} /\ d.kind = "project" -> [f EXCEPT !.projRec[d.id] = d.k]
    [] d.k \in {"bad", "noid", "noproj"} /\ d.kind = "session" -> [f EXCEPT !.sessRec[d.id] = d.k]
    [] d.k \in {"bad", "noid", "noproj"} /\ d.kind = "msgfile" ->
         IF f.msgRec[d.id] = "absent" THEN f ELSE [f EXCEPT !.msgRec[d.id] = d.k]
    [] OTHER -> f

\* --------------------------------------------------------------------- views
\* StateManager.orphanProjects: data.projects.filter((p) => p.isOrphan)
orphanProjects(data) == SelectSeq(data.projects, LAMBDA p : p.isOrphan)

\* OrphanListView.buildItemList: every project, followed by its sessions when it is
\* expanded.  A session item is item.project.sessions[item.sessionIndex].
RECURSIVE buildItemList(_, _)
buildItemList(projects, expanded) ==
  IF projects = <<>> THEN <<>>
  ELSE LET project == Head(projects)
           sessions == IF project.id \in expanded
                       THEN [k \in DOMAIN project.sessions |->
                              [type |-> "session", project |-> project, sessionIndex |-> k]]
                       ELSE <<>>
       IN <<[type |-> "project", project |-> project, sessionIndex |-> 0]>>
          \o sessions \o buildItemList(Tail(projects), expanded)

ItemSession(item) == item.project.sessions[item.sessionIndex]

\* getItems() of the view of the tree of projects (main: every project, orphans: the
\* orphan projects) and of the list of logs
getItems(view, data, expanded) ==
  CASE view = "orphans" -> buildItemList(orphanProjects(data), expanded)
    [] view = "main" -> buildItemList(data.projects, expanded)
    [] OTHER -> data.logs

\* indices.map((i) => items[i]).filter(Boolean)
RECURSIVE ItemsAt(_, _)
ItemsAt(items, indices) ==
  IF indices = <<>> THEN <<>>
  ELSE (IF Head(indices) \in DOMAIN items THEN <<items[Head(indices)]>> ELSE <<>>)
       \o ItemsAt(items, Tail(indices))

\* OrphanListView.executeDelete, first loop: the projects go to projectsToDelete; a
\* session goes to sessionsToDelete unless its project was met before it
RECURSIVE SeparateItems(_, _, _)
SeparateItems(selectedItems, i, acc) ==
  IF i > Len(selectedItems) THEN acc
  ELSE LET item == selectedItems[i]
       IN SeparateItems(selectedItems, i + 1,
            IF item.type = "project"
            THEN [acc EXCEPT !.projectsToDelete = Append(@, item.project),
                             !.deletedProjectIds = @ \cup {item.project.id}]
            ELSE IF item.project.id \notin acc.deletedProjectIds
                 THEN [acc EXCEPT !.sessionsToDelete = Append(@, ItemSession(item))]
                 ELSE acc)

\* OrphanListView.executeDelete, second loop: deleteProject for every project
RECURSIVE DeleteProjects(_, _, _)
DeleteProjects(env, f, projects) ==
  IF projects = <<>> THEN [fs |-> f, results |-> <<>>]
  ELSE With(deleteProject(env, f, Head(projects)), LAMBDA first :
         With(DeleteProjects(env, first.fs, Tail(projects)), LAMBDA rest :
           [fs |-> rest.fs, results |-> <<first.res>> \o rest.results]))

\* OrphanListView.executeDelete, last loop: cleanupEmptyProject for the projectID of a
\* session, which is then taken out of the set; acc.threw: cleanupEmptyProject rejected
RECURSIVE CleanupProjects(_, _, _, _)
CleanupProjects(env, acc, sessions, projectIDs) ==
  IF sessions = <<>> \/ acc.threw THEN acc
  ELSE IF Head(sessions).projectID \in projectIDs
       THEN With(cleanupEmptyProject(env, acc.fs, Head(sessions).projectID,
                                     Head(sessions).projectWorktree), LAMBDA out :
              CleanupProjects(env,
                [fs |-> out.fs, threw |-> out.res.threw,
                 cleaned |-> Append(acc.cleaned, Head(sessions).projectID)],
                Tail(sessions), projectIDs \ {Head(sessions).projectID}))
       ELSE CleanupProjects(env, acc, Tail(sessions), projectIDs)

\* The successes among results
Successes(results) == Len(SelectSeq(results, LAMBDA r : r.success))

\* OrphanListView.executeDelete(indices) on the items of a tree of projects.  threw: the
\* promise rejects; selected, projects, sessions, cleaned: what the loops worked on
executeDelete(env, f, items, indices) ==
  With(ItemsAt(items, indices), LAMBDA selectedItems :
  With(SeparateItems(selectedItems, 1,
         [projectsToDelete |-> <<>>, sessionsToDelete |-> <<>>, deletedProjectIds |-> {}]),
       LAMBDA sep :
  With(DeleteProjects(env, f, sep.projectsToDelete), LAMBDA projs :
  With(deleteSessions(env, projs.fs, sep.sessionsToDelete), LAMBDA sess :
  With(IF sep.sessionsToDelete = <<>>
       THEN [fs |-> sess.fs, threw |-> FALSE, cleaned |-> <<>>]
       ELSE CleanupProjects(env, [fs |-> sess.fs, threw |-> FALSE, cleaned |-> <<>>],
              sep.sessionsToDelete,
              {sep.sessionsToDelete[k].projectID : k \in DOMAIN sep.sessionsToDelete}),
       LAMBDA cleanup :
    [fs |-> cleanup.fs,
     threw |-> cleanup.threw,
     deletedCount |-> Successes(projs.results) + Successes(sess.results),
     selected |-> selectedItems,
     projects |-> sep.projectsToDelete,
     sessions |-> sep.sessionsToDelete,
     logs |-> <<>>,
     cleaned |-> cleanup.cleaned])))))

\* LogListView.executeDelete(indices): deleteLogs of the logs at the indices
executeDeleteLogs(env, f, logs, indices) ==
  With(ItemsAt(logs, indices), LAMBDA toDelete :
  With(deleteLogs(env, f, toDelete), LAMBDA out :
    [fs |-> out.fs,
     threw |-> FALSE,
     deletedCount |-> Successes(out.results),
     selected |-> toDelete,
     projects |-> <<>>,
     sessions |-> <<>>,
     logs |-> toDelete,
     cleaned |-> <<>>]))

\* ----------------------------------------------------------------- the app
\* What the last executeDelete of a view did, for the record
NoDone ==
  [dialog |-> 0, view |-> "none", described |-> <<>>, threw |-> FALSE, selected |-> <<>>,
   projects |-> <<>>, sessions |-> <<>>, logs |-> <<>>, cleaned |-> <<>>]

Done(dialog, view, described, out) ==
  [dialog |-> dialog, view |-> view, described |-> described, threw |-> out.threw,
   selected |-> out.selected, projects |-> out.projects, sessions |-> out.sessions,
   logs |-> out.logs, cleaned |-> out.cleaned]

\* A controller of the stack; a ConfirmDialogController carries the indices its onConfirm
\* closes over, and, for the record, its serial number and the items its details describe
Controller(kind) ==
  [kind |-> kind, dialog |-> 0, view |-> "none", indices |-> <<>>, described |-> <<>>]

\* The app after App.init(): the main view, its controller alone on the stack, nothing
\* loading, no overlay shown
UiStart ==
  [view |-> "main",
   stack |-> <<Controller("main")>>,
   isLoading |-> FALSE,
   expanded |-> {},
   confirmVisible |-> FALSE,
   detailVisible |-> FALSE,
   logVisible |-> FALSE,
   jobs |-> <<>>,
   entering |-> <<>>,
   dialogs |-> 0,
   confirmed |-> <<>>,
   done |-> NoDone]

\* ------------------------------------------------------------------ actions
NoRes ==
  [success |-> TRUE, projectID |-> NoId, sessionsDeleted |-> 0, filesDeleted |-> 0,
   bytesFreed |-> 0, frecencyEntriesRemoved |-> 0, error |-> FALSE,
   returned |-> FALSE, threw |-> FALSE]

Call(op, sessions, projects, pid, worktree, out, res) ==
  [op |-> op, sessions |-> sessions, projects |-> projects, pid |-> pid,
   worktree |-> worktree, results |-> out.results, res |-> res, trace |-> out.trace,
   logs |-> <<>>, logResults |-> <<>>, loaded |-> <<>>, pre |-> fs]

Env(partial) == [locked |-> locked, partial |-> partial]

\* What the lists on screen and the deletes confirmed in them depend on: a worktree that
\* is gone, a project record that does not parse, a session record without projectID, a
\* session record or a log that cannot be removed
UiDeviations ==
  {d \in Deviations :
     \/ d.k = "none"
     \/ d.kind = "worktree"
     \/ d.k = "bad" /\ d.kind = "project"
     \/ d.k \in {"noproj", "locked"} /\ d.kind = "session" /\ d.id = 1
     \/ d.k = "locked" /\ d.kind = "log"}

InitOf(D) ==
  \E d \in D :
    /\ fs = Deviate(CanonicalFs, d)
    /\ locked = IF d.k = "locked" THEN {Path(d.kind, d.id)} ELSE {}
    /\ snapshot = loadAllData(fs)
    /\ last = [op |-> "start", sessions |-> <<>>, projects |-> <<>>, pid |-> NoId,
               worktree |-> <<>>, results |-> <<>>, res |-> NoRes, trace |-> <<>>,
               logs |-> <<>>, logResults |-> <<>>, loaded |-> <<>>, pre |-> fs]
    /\ calls = 0
    /\ ui = UiStart

Init == InitOf(Deviations)

\* The app started on a store with one of the deviations the screen depends on
UiInit == InitOf(UiDeviations)

\* App.loadData: the snapshot is replaced by a fresh loadAllData()
Reload ==
  \E data \in {loadAllData(fs)} :
  /\ snapshot # data
  /\ snapshot' = data
  /\ UNCHANGED <<fs, locked, last, calls, ui>>

\* deleteSession(session) on a session of the snapshot
DeleteSession ==
  /\ calls < MaxCalls
  /\ \E i \in DOMAIN snapshot.sessions :
    LET session == snapshot.sessions[i]
    IN \E out \in {deleteSession(Env(FALSE), fs, session)} :
       /\ fs' = out.fs
       /\ last' = Call("deleteSession", <<session>>, <<>>, NoId, <<>>,
                       [results |-> <<out.res>>, trace |-> out.trace], NoRes)
       /\ calls' = calls + 1
       /\ UNCHANGED <<locked, snapshot, ui>>

\* The sessions of the snapshot at the indices of I, in snapshot order
Selected(I) == SelectSeq([i \in DOMAIN snapshot.sessions |-> i], LAMBDA i : i \in I)

\* deleteSessions(sessions) on sessions of the snapshot
DeleteSessions ==
  /\ calls < MaxCalls
  /\ \E I \in SUBSET (DOMAIN snapshot.sessions) :
    LET picked == Selected(I)
        sessions == [k \in DOMAIN picked |-> snapshot.sessions[picked[k]]]
    IN /\ Cardinality(I) >= 2
       /\ \E out \in {deleteSessions(Env(FALSE), fs, sessions)} :
            /\ fs' = out.fs
            /\ last' = Call("deleteSessions", sessions, <<>>, NoId, <<>>, out, NoRes)
            /\ calls' = calls + 1
            /\ UNCHANGED <<locked, snapshot, ui>>

\* deleteProject(project) on a project of the snapshot
DeleteProject ==
  /\ calls < MaxCalls
  /\ \E j \in DOMAIN snapshot.projects,
     partial \in IF \E path \in locked : path.kind = "session" THEN BOOLEAN ELSE {FALSE} :
    LET project == snapshot.projects[j]
    IN \E out \in {deleteProject(Env(partial), fs, project)} :
       /\ fs' = out.fs
       /\ last' = Call("deleteProject", project.sessions, <<project>>, project.id,
                       project.worktree, out, out.res @@ NoRes)
       /\ calls' = calls + 1
       /\ UNCHANGED <<locked, snapshot, ui>>

\* cleanupEmptyProject(session.projectID, session.projectWorktree) for a session of the
\* snapshot
CleanupEmptyProject ==
  /\ calls < MaxCalls
  /\ \E i \in DOMAIN snapshot.sessions :
    LET session == snapshot.sessions[i]
    IN \E out \in {cleanupEmptyProject(Env(FALSE), fs, session.projectID,
                                       session.projectWorktree)} :
       /\ fs' = out.fs
       /\ last' = Call("cleanupEmptyProject", <<>>, <<>>, session.projectID,
                       session.projectWorktree,
                       [results |-> <<>>, trace |-> out.trace], out.res @@ NoRes)
       /\ calls' = calls + 1
       /\ UNCHANGED <<locked, snapshot, ui>>

\* The logs of the snapshot at the indices of I, in snapshot order
SelectedLogs(I) == SelectSeq([i \in DOMAIN snapshot.logs |-> i], LAMBDA i : i \in I)

\* LogListView.executeDelete: deleteLogs(logs) on logs of the snapshot
DeleteLogs ==
  /\ calls < MaxCalls
  /\ \E I \in SUBSET (DOMAIN snapshot.logs) :
    LET picked == SelectedLogs(I)
        logs == [k \in DOMAIN picked |-> snapshot.logs[picked[k]]]
    IN /\ I # {}
       /\ \E out \in {deleteLogs(Env(FALSE), fs, logs)} :
            /\ fs' = out.fs
            /\ last' = [Call("deleteLogs", <<>>, <<>>, NoId, <<>>,
                              [results |-> <<>>, trace |-> out.trace], NoRes)
                          EXCEPT !.logs = logs, !.logResults = out.results]
            /\ calls' = calls + 1
            /\ UNCHANGED <<locked, snapshot, ui>>

\* The directories cleanFrecencyForDirectory is called with: a worktree, or a directory
\* that belongs to no project
CleanedDirectories == {Worktree(p) : p \in ProjIds} \cup {<<"/", "z">>}

\* cleanFrecencyForDirectory(directory)
CleanFrecencyForDirectory ==
  /\ calls < MaxCalls
  /\ \E directory \in CleanedDirectories :
       \E out \in {cleanFrecencyForDirectory(Env(FALSE), fs, directory)} :
         /\ fs' = out.fs
         /\ last' = Call("cleanFrecencyForDirectory", <<>>, <<>>, NoId, directory,
                         [results |-> <<>>, trace |-> <<>>],
                         [NoRes EXCEPT !.frecencyEntriesRemoved = out.removed])
         /\ calls' = calls + 1
         /\ UNCHANGED <<locked, snapshot, ui>>

\* The session and project views: deletions of sessions and projects, and reloads
\* SessionViewerController.onEnter: loadMessages(session.id) for a session of the snapshot
LoadMessages ==
  \E i \in DOMAIN snapshot.sessions :
    LET session == snapshot.sessions[i]
    IN /\ last' = [Call("loadMessages", <<session>>, <<>>, NoId, <<>>,
                        [results |-> <<>>, trace |-> <<>>], NoRes)
                     EXCEPT !.loaded = loadMessages(fs, session.id)]
       /\ UNCHANGED <<fs, locked, snapshot, calls, ui>>

\* MessageViewerController.onEnter: loadParts(message.id) for a message of the list just
\* loaded
LoadParts ==
  /\ last.op = "loadMessages"
  /\ \E i \in DOMAIN last.loaded :
       /\ last' = [Call("loadParts", last.sessions, <<>>, last.loaded[i].id, <<>>,
                        [results |-> <<>>, trace |-> <<>>], NoRes)
                     EXCEPT !.loaded = loadParts(fs, last.loaded[i].id)]
       /\ UNCHANGED <<fs, locked, snapshot, calls, ui>>

Next == Reload \/ DeleteSession \/ DeleteSessions \/ DeleteProject \/ CleanupEmptyProject

Spec == Init /\ [][Next]_vars

\* ------------------------------------------------------------ the app, keys
MaxPending == 1
MaxJobs == 2

\* VIEW_ORDER and getNextView
VIEW_ORDER == <<"main", "orphans", "logs">>
getNextView(view) ==
  LET i == CHOOSE k \in DOMAIN VIEW_ORDER : VIEW_ORDER[k] = view
  IN VIEW_ORDER[(i % Len(VIEW_ORDER)) + 1]

\* (keybindings of the dialog that also bind the expand and collapse keys of the list)
BindingsWithList(kind) ==
  CASE kind \in {"main", "orphans"} ->
         {"DELETE", "RELOAD", "NEXT_VIEW", "EXPAND", "COLLAPSE", "ENTER", "BACK"}
    [] kind = "logs" ->
         {"DELETE", "DELETE_ALL", "RELOAD", "NEXT_VIEW", "ENTER", "BACK"}
    [] kind = "confirm" -> {"CONFIRM_YES", "CONFIRM_NO", "EXPAND", "COLLAPSE"}
    [] kind \in {"projectViewer", "sessionViewer"} -> {"ENTER", "BACK"}
    [] OTHER -> {"BACK"}

\* getKeybindings() of a controller, as the actions its keys are bound to
Bindings(kind) ==
  CASE kind \in {"main", "orphans"} ->
         {"DELETE", "RELOAD", "NEXT_VIEW", "EXPAND", "COLLAPSE", "ENTER", "BACK"}
    [] kind = "logs" ->
         {"DELETE", "DELETE_ALL", "RELOAD", "NEXT_VIEW", "ENTER", "BACK"}
    [] kind = "confirm" -> {"CONFIRM_YES", "CONFIRM_NO"}
    [] kind \in {"projectViewer", "sessionViewer"} -> {"ENTER", "BACK"}
    [] OTHER -> {"BACK"}

\* (a keypress handler that does not look at isLoading)
AcceptsWhileLoading(u) == TRUE

\* App.setupKeyboardHandlers: `if (this.state.isLoading) return`
Accepts(u) == ~u.isLoading

\* App.getTopController
Top(u) == u.stack[Len(u.stack)]

\* App.handleKeys: the key is bound to action by the top controller, and the press is
\* not ignored
Pressed(action) == Accepts(ui) /\ action \in Bindings(Top(ui).kind)

\* The key of an item in the list on screen
ItemKey(item) ==
  [type |-> item.type,
   id |-> IF item.type = "project" THEN item.project.id ELSE ItemSession(item).id]
LogKey(log) == [type |-> "log", id |-> log.filename]
KeysOf(view, items) ==
  [k \in DOMAIN items |-> IF view = "logs" THEN LogKey(items[k]) ELSE ItemKey(items[k])]

\* onEnter of a controller: a dialog is shown at once, the log viewer as well; the
\* project, session and message viewers first await what they load and show it then
Awaited(kind) ==
  CASE kind \in {"projectViewer", "sessionViewer"} -> <<[kind |-> "detail", id |-> NoId]>>
    [] kind = "messageViewer" -> <<[kind |-> "log", id |-> NoId]>>
    [] OTHER -> <<>>

onEnter(u, controller) ==
  [u EXCEPT !.confirmVisible = @ \/ controller.kind = "confirm",
            !.logVisible = @ \/ controller.kind = "logViewer",
            !.entering = @ \o Awaited(controller.kind)]

\* onExit of a controller: its overlay is hidden
onExit(u, controller) ==
  [u EXCEPT !.confirmVisible = @ /\ controller.kind # "confirm",
            !.detailVisible = @ /\ controller.kind \notin {"projectViewer", "sessionViewer"},
            !.logVisible = @ /\ controller.kind \notin {"messageViewer", "logViewer"}]

\* App.pushController
pushController(u, controller) ==
  onEnter([u EXCEPT !.stack = Append(@, controller)], controller)

\* App.popController: nothing at depth 1; else the top is popped, its onExit runs and
\* the onEnter of the new top
popController(u) ==
  IF Len(u.stack) > 1
  THEN With(onExit([u EXCEPT !.stack = SubSeq(@, 1, Len(@) - 1)], Top(u)),
            LAMBDA v : onEnter(v, Top(v)))
  ELSE u

\* (a VIEW_CHANGED listener that leaves the controller stack alone)
setViewKeepingRoot(u, view) ==
  IF u.view # view THEN [u EXCEPT !.view = view] ELSE u

\* StateManager.setView and the VIEW_CHANGED listener of the app: the root controller
\* is replaced by the controller of the view; the expanded projects are kept
setView(u, view) ==
  IF u.view # view
  THEN [u EXCEPT !.view = view, !.stack[1] = Controller(view)]
  ELSE u

\* What the app may have in flight at once
Bounded(u) == Len(u.entering) <= MaxPending /\ Len(u.jobs) <= MaxJobs

\* A job of the app: an executeDelete of a controller (phase "delete", then "reload") or
\* a loadData of the r key (phase "reload")
Job(phase, dialog) ==
  [phase |-> phase, dialog |-> dialog.dialog, view |-> dialog.view,
   indices |-> dialog.indices, described |-> dialog.described, items |-> <<>>]

\* ----------------------------------------------------- OrphanListView alone
MaxSelected == 2

\* The lists of at most n distinct indices of items, in any order
IndexLists(items, n) ==
  UNION {{l \in [1..k -> DOMAIN items] : \A a, b \in 1..k : a # b => l[a] # l[b]} :
           k \in 1..n}

\* The projects expandProject can be called with: `projectId &&` lets no undefined id in
Expandable(projects) == {projects[k].id : k \in DOMAIN projects} \cap ProjIds

\* OrphanListView.executeDelete(indices) on the orphan view of the snapshot, some of its
\* projects expanded
OrphanExecuteDelete ==
  /\ calls < MaxCalls
  /\ \E expanded \in SUBSET Expandable(orphanProjects(snapshot)) :
       \E items \in {getItems("orphans", snapshot, expanded)} :
         \E indices \in IndexLists(items, MaxSelected) :
           \E out \in {executeDelete(Env(FALSE), fs, items, indices)} :
             /\ fs' = out.fs
             /\ ui' = [ui EXCEPT !.expanded = expanded,
                                 !.done = Done(0, "orphans", <<>>, out)]
             /\ calls' = calls + 1
             /\ UNCHANGED <<locked, snapshot, last>>

OrphanNext == Reload \/ OrphanExecuteDelete

OrphanSpec == Init /\ [][OrphanNext]_vars

\* The batch operations of the manager: deleteSessions and deleteLogs, and reloads
BatchNext == Reload \/ DeleteSessions \/ DeleteLogs

BatchSpec == Init /\ [][BatchNext]_vars

\* The frecency file under cleanFrecencyForDirectory and the two operations that call it
FrecencyNext == CleanFrecencyForDirectory \/ DeleteProject \/ CleanupEmptyProject

FrecencySpec == Init /\ [][FrecencyNext]_vars

\* The viewers, which read the messages of a session and the parts of a message
ViewerNext == Reload \/ DeleteSession \/ LoadMessages \/ LoadParts

ViewerSpec == Init /\ [][ViewerNext]_vars

\* ------------------------------------------------------- the app as a whole
\* The items on screen under the root controller
Items == getItems(ui.view, snapshot, ui.expanded)

\* The item a viewer was opened on, in the snapshot
ViewedProject(controller) ==
  SelectSeq(snapshot.projects, LAMBDA p : p.id = controller.described[1].id)
Without(seq, i) == SubSeq(seq, 1, i - 1) \o SubSeq(seq, i + 1, Len(seq))

\* App.switchView: every controller above the root is popped, its onExit called; then
\* state.nextView()
RECURSIVE switchView(_)
switchView(u) ==
  IF Len(u.stack) > 1
  THEN switchView(onExit([u EXCEPT !.stack = SubSeq(@, 1, Len(@) - 1)], Top(u)))
  ELSE setView(u, getNextView(u.view))

\* App.loadData up to its await: setLoading(true)
loadData(u) ==
  [u EXCEPT !.isLoading = TRUE,
            !.jobs = Append(@, Job("reload", Controller("none")))]

\* (an executeDelete of the controller that does not call ctx.loadData())
executeDeleteWithoutLoadData(u, j, threw) ==
  [u EXCEPT !.jobs = Without(@, j), !.isLoading = FALSE]

\* MainController.executeDelete / LogController.executeDelete once view.executeDelete
\* has settled: ctx.loadData() when it resolved; the catch and setLoading(false) when it
\* rejected
executeDeleteSettled(u, j, threw) ==
  IF threw
  THEN [u EXCEPT !.jobs = Without(@, j), !.isLoading = FALSE]
  ELSE [u EXCEPT !.jobs[j].phase = "reload", !.isLoading = TRUE]

\* (a CONFIRM_YES that leaves the dialog on the stack)
confirmWithoutPop(u) == u

\* ConfirmDialogController.handleAction(CONFIRM_YES), first statement
confirmPop(u) == popController(u)

\* tab at depth 1: the next view
NextView ==
  /\ Pressed("NEXT_VIEW")
  /\ Len(ui.stack) = 1
  /\ ui' = switchView(ui)
  /\ UNCHANGED <<fs, locked, snapshot, last, calls>>

\* r at depth 1: loadData()
PressReload ==
  /\ Pressed("RELOAD")
  /\ Len(ui.stack) = 1
  /\ ui' = loadData(ui)
  /\ Bounded(ui')
  /\ UNCHANGED <<fs, locked, snapshot, last, calls>>

\* MainController.expandCurrentProject on the item under the cursor
Expand ==
  /\ Pressed("EXPAND")
  /\ \E index \in DOMAIN Items :
       LET projectId == Items[index].project.id
       IN /\ projectId # NoId
          /\ projectId \notin ui.expanded
          /\ ui' = [ui EXCEPT !.expanded = @ \cup {projectId}]
  /\ UNCHANGED <<fs, locked, snapshot, last, calls>>

\* MainController.collapseCurrentProject on the item under the cursor
Collapse ==
  /\ Pressed("COLLAPSE")
  /\ \E index \in DOMAIN Items :
       LET projectId == Items[index].project.id
       IN /\ projectId # NoId
          /\ projectId \in ui.expanded
          /\ ui' = [ui EXCEPT !.expanded = @ \ {projectId}]
  /\ UNCHANGED <<fs, locked, snapshot, last, calls>>

\* The dialog of a delete of the items at indices
Dialog(indices) ==
  [kind |-> "confirm", dialog |-> calls + 1, view |-> Top(ui).kind, indices |-> indices,
   described |-> KeysOf(Top(ui).kind, ItemsAt(Items, indices))]

\* MainController.initiateDelete on the item under the cursor; LogController.initiateDelete
\* on the selected logs, in the order they were selected, or on the log under the cursor
InitiateDelete ==
  /\ Pressed("DELETE")
  /\ calls < MaxCalls
  /\ \E indices \in IndexLists(Items, IF Top(ui).kind = "logs" THEN MaxSelected ELSE 1) :
       ui' = pushController(ui, Dialog(indices))
  /\ UNCHANGED <<fs, locked, snapshot, last, calls>>

\* LogController.initiateDeleteAll
InitiateDeleteAll ==
  /\ Pressed("DELETE_ALL")
  /\ calls < MaxCalls
  /\ Items # <<>>
  /\ ui' = pushController(ui, Dialog([i \in DOMAIN Items |-> i]))
  /\ UNCHANGED <<fs, locked, snapshot, last, calls>>

\* y in a dialog: popController(), then onConfirm(): the executeDelete of the controller
\* that opened the dialog runs up to the first await of view.executeDelete
ConfirmYes ==
  /\ Pressed("CONFIRM_YES")
  /\ calls < MaxCalls
  /\ \E popped \in {confirmPop(ui)} :
       \E items \in {getItems(Top(ui).view, snapshot, popped.expanded)} :
         ui' = [popped EXCEPT !.isLoading = TRUE,
                              !.jobs = Append(@, [Job("delete", Top(ui)) EXCEPT !.items = items]),
                              !.confirmed = Append(@, Top(ui).dialog)]
  /\ Bounded(ui')
  /\ calls' = calls + 1
  /\ UNCHANGED <<fs, locked, snapshot, last>>

\* n or Esc in a dialog: popController()
ConfirmNo ==
  /\ Pressed("CONFIRM_NO")
  /\ ui' = popController(ui)
  /\ Bounded(ui')
  /\ UNCHANGED <<fs, locked, snapshot, last, calls>>

\* view.executeDelete(indices) of a running executeDelete, and what follows it
RunDelete ==
  \E j \in DOMAIN ui.jobs :
    /\ ui.jobs[j].phase = "delete"
    /\ \E out \in {IF ui.jobs[j].view = "logs"
                   THEN executeDeleteLogs(Env(FALSE), fs, ui.jobs[j].items, ui.jobs[j].indices)
                   ELSE executeDelete(Env(FALSE), fs, ui.jobs[j].items, ui.jobs[j].indices)} :
         /\ fs' = out.fs
         /\ ui' = [executeDeleteSettled(ui, j, out.threw)
                     EXCEPT !.done = Done(ui.jobs[j].dialog, ui.jobs[j].view,
                                          ui.jobs[j].described, out)]
    /\ UNCHANGED <<locked, snapshot, last, calls>>

\* The end of a loadData: setData(data), which collapses every project, and
\* setLoading(false)
RunReload ==
  \E j \in DOMAIN ui.jobs :
    /\ ui.jobs[j].phase = "reload"
    /\ snapshot' = loadAllData(fs)
    /\ ui' = [ui EXCEPT !.jobs = Without(@, j), !.expanded = {}, !.isLoading = FALSE]
    /\ UNCHANGED <<fs, locked, last, calls>>

\* Enter on the tree of projects: MainController.viewCurrentItem on the item under the
\* cursor
ViewCurrentItem ==
  /\ Pressed("ENTER")
  /\ Top(ui).kind \in {"main", "orphans"}
  /\ \E index \in DOMAIN Items :
       ui' = pushController(ui,
               [Controller(IF Items[index].type = "project" THEN "projectViewer"
                           ELSE "sessionViewer")
                  EXCEPT !.described = <<ItemKey(Items[index])>>])
  /\ Bounded(ui')
  /\ UNCHANGED <<fs, locked, snapshot, last, calls>>

\* Enter on the list of logs: LogController.viewLog up to its await of readFile
ViewLog ==
  /\ Pressed("ENTER")
  /\ Top(ui).kind = "logs"
  /\ \E index \in DOMAIN Items :
       ui' = [ui EXCEPT !.entering =
                Append(@, [kind |-> "viewLog", id |-> Items[index].filename])]
  /\ Bounded(ui')
  /\ UNCHANGED <<fs, locked, snapshot, last, calls>>

\* Enter in a viewer: ProjectViewerController.viewSelectedSession on a session the
\* detail viewer lists, SessionViewerController.viewSelectedMessage on a message
ViewSelected ==
  /\ Pressed("ENTER")
  /\ ui.detailVisible
  /\ \/ /\ Top(ui).kind = "projectViewer"
        /\ \E project \in {ViewedProject(Top(ui))} :
             /\ project # <<>>
             /\ \E k \in DOMAIN project[1].sessions :
                  ui' = pushController(ui,
                          [Controller("sessionViewer")
                             EXCEPT !.described = <<[type |-> "session",
                                                     id |-> project[1].sessions[k].id]>>])
     \/ /\ Top(ui).kind = "sessionViewer"
        /\ loadMessages(fs, Top(ui).described[1].id) # <<>>
        /\ ui' = pushController(ui, Controller("messageViewer"))
  /\ Bounded(ui')
  /\ UNCHANGED <<fs, locked, snapshot, last, calls>>

\* Esc in a viewer: popController()
Back ==
  /\ Pressed("BACK")
  /\ Len(ui.stack) > 1
  /\ ui' = popController(ui)
  /\ Bounded(ui')
  /\ UNCHANGED <<fs, locked, snapshot, last, calls>>

\* An awaited result arrives: a viewer shows what its onEnter loaded; viewLog pushes a
\* LogViewerController when readFile succeeded
Resume ==
  /\ \E i \in DOMAIN ui.entering :
       \E rest \in {[ui EXCEPT !.entering = Without(@, i)]} :
         ui' = CASE ui.entering[i].kind = "detail" -> [rest EXCEPT !.detailVisible = TRUE]
                 [] ui.entering[i].kind = "log" -> [rest EXCEPT !.logVisible = TRUE]
                 [] OTHER -> IF fs.logFile[ui.entering[i].id]
                             THEN pushController(rest, Controller("logViewer"))
                             ELSE rest
  /\ UNCHANGED <<fs, locked, snapshot, last, calls>>

\* The views, the deletes confirmed in them, the reloads and the log viewer
UiNext ==
  \/ NextView \/ PressReload \/ Expand \/ Collapse \/ InitiateDelete \/ InitiateDeleteAll
  \/ ConfirmYes \/ ConfirmNo \/ RunDelete \/ RunReload \/ ViewLog \/ Back \/ Resume

UiSpec == UiInit /\ [][UiNext]_vars

\* The controller stack: the views, the dialogs opened and dismissed, and the viewers
NavNext ==
  \/ NextView \/ Expand \/ Collapse \/ InitiateDelete \/ InitiateDeleteAll \/ ConfirmNo
  \/ ViewCurrentItem \/ ViewLog \/ ViewSelected \/ Back \/ Resume

NavSpec == Init /\ [][NavNext]_vars

\* ------------------------------------------------------------------ claims
\* The artifacts of session s: its part directories are those of the message files of
\* its message directory that parse and carry an id.
MessagesOf(f, s) == {m \in MsgIds : Owner(m) = s /\ f.msgRec[m] = "ok"}

ArtifactsOf(f, s) ==
  {Path("message", s), Path("diff", s), Path("todo", s), Path("session", s)}
  \cup {Path("part", m) : m \in MessagesOf(f, s)}

\* Is there an entry of the frecency file whose path starts with dir?
FrecencyHas(f, dir) ==
  \E i \in DOMAIN f.frecency.lines :
    f.frecency.lines[i].kind = "entry" /\ StartsWith(f.frecency.lines[i].path, dir)

\* The removals of a trace that threw
FailedSteps(trace) == {i \in DOMAIN trace : ~trace[i].ok}

\* C1: after deleteSession(S) returned success=true, the message directory of S, the part
\* directory of each of its former messages, its diff file, its todo file and its session
\* record file are absent from disk.
C1_DeletionCompleteness ==
  (last.op = "deleteSession" /\ last.results[1].success)
    => \A path \in ArtifactsOf(last.pre, last.sessions[1].id) : ~Exists(fs, path)

\* The size the specification gives session s: message directory + part directory of each
\* message + diff + todo + session record file, a missing one counting 0.
RECURSIVE SumParts(_, _)
SumParts(f, M) ==
  IF M = {} THEN 0
  ELSE LET m == CHOOSE x \in M : TRUE IN PartSize(f, m) + SumParts(f, M \ {m})

SpecifiedSize(f, s) ==
  MessageDirSize(f, s) + SumParts(f, MessagesOf(f, s)) + DiffSize(f, s) + TodoSize(f, s)
  + SessionFileSize(f, s)

\* C2: every session returned by loadSessions carries sizeBytes = size(message directory)
\* + sum over its messages of size(part directory) + size(diff) + size(todo) + size(record).
C2_SizeBytesFormula ==
  \A data \in {loadAllData(fs)} :
    \A i \in DOMAIN data.sessions :
      data.sessions[i].sizeBytes = SpecifiedSize(fs, data.sessions[i].id)

\* C3: no call removes a project's record file while a session record file exists under
\* that project's session directory.
C3_NoProjectRemovedWithSessions ==
  \A p \in ProjIds :
    (last.pre.projRec[p] # "absent" /\ fs.projRec[p] = "absent")
      => SessionFiles(fs, p) = <<>>

\* C4: cleanupEmptyProject(projectID, worktree) returns true and removes the project record,
\* the session directory, the snapshot directory and the frecency entries under worktree if
\* and only if the session directory held no session file; otherwise it returns false and
\* leaves the disk as it was.
C4_CleanupIffEmpty ==
  (last.op = "cleanupEmptyProject" /\ last.pid \in ProjIds)
    => IF SessionFiles(last.pre, last.pid) = <<>>
       THEN /\ last.res.returned
            /\ ~Exists(fs, Path("project", last.pid))
            /\ ~Exists(fs, Path("sessiondir", last.pid))
            /\ ~Exists(fs, Path("snapshot", last.pid))
            /\ ~FrecencyHas(fs, last.worktree)
       ELSE ~last.res.returned /\ fs = last.pre

\* C5: after deleteProject(P) returned success=true, no session record file remains under
\* P's session directory, P's record file is absent and no frecency entry starts with
\* P.worktree.
C5_CascadeCorrectness ==
  (last.op = "deleteProject" /\ last.res.success /\ last.pid \in ProjIds)
    => /\ SessionFiles(fs, last.pid) = <<>>
       /\ ~Exists(fs, Path("project", last.pid))
       /\ ~FrecencyHas(fs, last.worktree)

\* C6: when a removal of deleteSession fails with an I/O error that is not absence, no
\* later step runs and the result has success=false and an error.
C6_SessionIOErrorAborts ==
  (last.op = "deleteSession" /\ FailedSteps(last.trace) # {})
    => /\ ~last.results[1].success
       /\ last.results[1].error
       /\ FailedSteps(last.trace) = {Len(last.trace)}

\* C7: when removing the project record file, the session directory or the snapshot
\* directory fails with an I/O error in deleteProject, the result has success=false and an
\* error, and no later step (the frecency cleanup included) runs.
C7_ProjectIOErrorAborts ==
  LET failed == {i \in FailedSteps(last.trace) :
                   last.trace[i].path.kind \in {"project", "sessiondir", "snapshot"}}
  IN (last.op = "deleteProject" /\ failed # {})
       => /\ ~last.res.success
          /\ last.res.error
          /\ failed = {Len(last.trace)}
          /\ fs.frecency = last.pre.frecency

\* C8: on a successful deleteSession(S), filesDeleted is the number of S's artifacts that
\* existed on disk before the call.
C8_FilesDeletedCountsExisting ==
  (last.op = "deleteSession" /\ last.results[1].success)
    => last.results[1].filesDeleted
         = Cardinality({path \in ArtifactsOf(last.pre, last.sessions[1].id) :
                          Exists(last.pre, path)})

\* C9: deleteSession(S) reports bytesFreed = S.sizeBytes (the value its argument carries)
\* when success=true and bytesFreed = 0 when success=false; on failure filesDeleted counts
\* the removals completed before the failure.
C9_BytesFreed ==
  /\ \A i \in DOMAIN last.results :
       last.results[i].bytesFreed
         = IF last.results[i].success THEN last.sessions[i].sizeBytes ELSE 0
  /\ (last.op = "deleteSession" /\ ~last.results[1].success)
       => last.results[1].filesDeleted
            = Cardinality({i \in DOMAIN last.trace : last.trace[i].ok})

\* C9 witness: a deleteSession that failed after it had removed something of a session
\* that carried a size
C9_Witness ==
  /\ last.op = "deleteSession"
  /\ ~last.results[1].success
  /\ last.results[1].filesDeleted > 0
  /\ last.sessions[1].sizeBytes > 0

\* C10: deleteSession(S) leaves the files of every other session as they were, and a
\* reload reports the sizeBytes it reported before for each of them.
C10_SiblingsUntouched ==
  last.op = "deleteSession"
    => \A t \in SessIds \ {last.sessions[1].id} :
         /\ fs.sessRec[t] = last.pre.sessRec[t]
         /\ fs.msgDir[t] = last.pre.msgDir[t]
         /\ fs.diffFile[t] = last.pre.diffFile[t]
         /\ fs.todoFile[t] = last.pre.todoFile[t]
         /\ \A m \in MsgIds :
              Owner(m) = t => /\ fs.msgRec[m] = last.pre.msgRec[m]
                              /\ fs.partDir[m] = last.pre.partDir[m]
         /\ \A before \in {loadAllData(last.pre)}, after \in {loadAllData(fs)} :
              \A i \in DOMAIN before.sessions :
                before.sessions[i].id = t
                  => \E j \in DOMAIN after.sessions :
                       /\ after.sessions[j].id = t
                       /\ after.sessions[j].sizeBytes = before.sessions[i].sizeBytes

\* C10 witness: a session was deleted whose project holds another session with messages,
\* parts, diff and todo on disk
C10_Witness ==
  /\ last.op = "deleteSession"
  /\ last.results[1].success
  /\ last.pre.sessRec[last.sessions[1].id] # "absent"
  /\ fs.sessRec[last.sessions[1].id] = "absent"
  /\ \E t \in SessIds \ {last.sessions[1].id} :
       /\ Home(t) = Home(last.sessions[1].id)
       /\ fs.sessRec[t] = "ok" /\ fs.msgDir[t] /\ fs.diffFile[t] /\ fs.todoFile[t]
       /\ \E m \in MsgIds : Owner(m) = t /\ fs.partDir[m]

\* The ids of the paths of one kind in a trace of removals, in the order of the removals
StepsOfKind(trace, kind) ==
  LET steps == SelectSeq(trace, LAMBDA step : step.path.kind = kind)
  IN [i \in DOMAIN steps |-> steps[i].path.id]

\* C11: deleteSessions(list) and deleteLogs(list) process their inputs one at a time in input
\* order and return exactly one result per input in that order; an item whose result has
\* success=false does not keep a later item from being processed (the session record files
\* of the items that succeeded are removed in input order, each log file is removed in
\* input order).
C11_BatchOneResultPerInput ==
  /\ last.op = "deleteSessions"
       => /\ [i \in DOMAIN last.results |-> last.results[i].sessionID]
               = [i \in DOMAIN last.sessions |-> last.sessions[i].id]
          /\ StepsOfKind(last.trace, "session")
               = LET done == SelectSeq(last.results, LAMBDA r : r.success)
                 IN [i \in DOMAIN done |-> done[i].sessionID]
  /\ last.op = "deleteLogs"
       => /\ [i \in DOMAIN last.logResults |-> last.logResults[i].filename]
               = [i \in DOMAIN last.logs |-> last.logs[i].filename]
          /\ StepsOfKind(last.trace, "log")
               = [i \in DOMAIN last.logs |-> last.logs[i].filename]
          /\ \A i \in DOMAIN last.logResults :
               last.logResults[i].success <=> last.trace[i].ok

\* C11 witness: a batch whose first deleteSession failed and whose second one removed its
\* session file
C11_Witness ==
  /\ last.op = "deleteSessions"
  /\ Len(last.sessions) >= 2
  /\ ~last.results[1].success
  /\ last.results[2].success
  /\ last.pre.sessRec[last.sessions[2].id] # "absent"
  /\ fs.sessRec[last.sessions[2].id] = "absent"

\* C11 (deleteLogs): a batch whose first deleteLog failed and whose second one removed its file
C11_LogsWitness ==
  /\ last.op = "deleteLogs"
  /\ Len(last.logs) >= 2
  /\ ~last.logResults[1].success
  /\ last.logResults[2].success
  /\ ~fs.logFile[last.logs[2].filename]

\* The sum of sizeBytes over the sessions at the indices of I
RECURSIVE SizeOfSessions(_, _)
SizeOfSessions(sessions, I) ==
  IF I = {} THEN 0
  ELSE LET i == CHOOSE x \in I : TRUE
       IN sessions[i].sizeBytes + SizeOfSessions(sessions, I \ {i})

\* C12: deleteProject(P) calls deleteSession on every session of P.sessions, also after one
\* of them failed; sessionsDeleted is the number of those calls that returned success=true
\* and bytesFreed the sum of sizeBytes of the sessions of exactly those calls.
C12_ProjectTallies ==
  last.op = "deleteProject"
    => LET succeeded == {i \in DOMAIN last.results : last.results[i].success}
       IN /\ [i \in DOMAIN last.results |-> last.results[i].sessionID]
               = [i \in DOMAIN last.sessions |-> last.sessions[i].id]
          /\ last.res.sessionsDeleted = Cardinality(succeeded)
          /\ last.res.bytesFreed = SizeOfSessions(last.sessions, succeeded)

\* C12 witness: a deleteProject whose first session failed and whose second one succeeded
C12_Witness ==
  /\ last.op = "deleteProject"
  /\ Len(last.sessions) >= 2
  /\ ~last.results[1].success
  /\ last.results[2].success
  /\ last.sessions[2].sizeBytes > 0
  /\ last.res.sessionsDeleted = 1

\* Does a line of the frecency file hold an entry whose path starts with dir?
EntryUnder(line, dir) == line.kind = "entry" /\ StartsWith(line.path, dir)

\* The lines of a frecency file of the given kinds, in file order
LinesOfKind(f, kinds) == SelectSeq(f.frecency.lines, LAMBDA l : l.kind \in kinds)

\* C13: cleanFrecencyForDirectory(prefix) rewrites the frecency file so that it holds, in
\* their order, exactly the lines it held whose entry path does not start with prefix, and
\* returns the number of lines removed.
C13_FrecencyFiltering ==
  (last.op = "cleanFrecencyForDirectory" /\ last.pre.frecency.exists)
    => /\ fs.frecency.exists
       /\ fs.frecency.lines
            = SelectSeq(last.pre.frecency.lines, LAMBDA l : ~EntryUnder(l, last.worktree))
       /\ last.res.frecencyEntriesRemoved
            = Len(last.pre.frecency.lines) - Len(fs.frecency.lines)

\* C14 as claimed: every line that does not parse (an empty one included) is in the
\* rewritten file as it was and is not counted in the number returned.
C14_UnparsableLinesKept ==
  /\ LinesOfKind(fs, {"garbage", "empty"}) = LinesOfKind(last.pre, {"garbage", "empty"})
  /\ last.op = "cleanFrecencyForDirectory"
       => last.res.frecencyEntriesRemoved
            <= Len(LinesOfKind(last.pre, {"entry"})) - Len(LinesOfKind(fs, {"entry"}))

\* C14 amended: every line that is not empty and does not parse is in the rewritten file
\* as it was, in its order, and is not counted in the number returned; empty lines are
\* dropped by the rewrite, uncounted.
C14_NonEmptyUnparsableLinesKept ==
  /\ LinesOfKind(fs, {"garbage", "nopath"}) = LinesOfKind(last.pre, {"garbage", "nopath"})
  /\ last.op = "cleanFrecencyForDirectory"
       => /\ last.res.frecencyEntriesRemoved
               = Len(LinesOfKind(last.pre, {"entry"})) - Len(LinesOfKind(fs, {"entry"}))
          /\ fs.frecency.lines # last.pre.frecency.lines
               => LinesOfKind(fs, {"empty"}) = <<>>

\* C14 witness: a rewrite that removed an entry from a file holding a line that does not
\* parse and an empty line
C14_Witness ==
  /\ last.op = "cleanFrecencyForDirectory"
  /\ last.res.frecencyEntriesRemoved > 0
  /\ LinesOfKind(last.pre, {"garbage"}) # <<>>
  /\ LinesOfKind(last.pre, {"empty"}) # <<>>
  /\ LinesOfKind(fs, {"garbage"}) # <<>>

\* C15: when the frecency file does not exist, cleanFrecencyForDirectory returns 0 and does
\* not create the file.
C15_MissingFrecencyFile ==
  (last.op = "cleanFrecencyForDirectory" /\ ~last.pre.frecency.exists)
    => /\ last.res.frecencyEntriesRemoved = 0
       /\ ~fs.frecency.exists
       /\ fs = last.pre

\* C15 witness: cleanFrecencyForDirectory was called without a frecency file
C15_Witness ==
  /\ last.op = "cleanFrecencyForDirectory"
  /\ ~last.pre.frecency.exists
  /\ last.worktree = Worktree(1)

\* The places <<j, k>> of a snapshot where session x is listed in a ProjectInfo
ListedAt(data, x) ==
  {jk \in UNION {{<<j, k>> : k \in DOMAIN data.projects[j].sessions} : j \in DOMAIN data.projects} :
     data.projects[jk[1]].sessions[jk[2]] = x}

\* C16: in every snapshot of loadAllData each session of the session list is listed by
\* exactly one ProjectInfo, a project record or a placeholder.
C16_SessionInOneProject ==
  \A i \in DOMAIN snapshot.sessions :
    Cardinality(ListedAt(snapshot, snapshot.sessions[i])) = 1

\* C16 witness: a snapshot with sessions under a placeholder and sessions under a project
\* record
C16_Witness ==
  /\ \E j \in DOMAIN snapshot.projects :
       snapshot.projects[j].placeholder /\ Len(snapshot.projects[j].sessions) >= 2
  /\ \E j \in DOMAIN snapshot.projects :
       ~snapshot.projects[j].placeholder /\ snapshot.projects[j].sessions # <<>>

\* C17: every ProjectInfo of a snapshot that has sessions carries totalSizeBytes = the sum
\* of sizeBytes over the sessions it lists.
C17_TotalSizeBytes ==
  \A j \in DOMAIN snapshot.projects :
    LET P == snapshot.projects[j]
    IN P.sessions # <<>> => P.totalSizeBytes = SizeOfSessions(P.sessions, DOMAIN P.sessions)

\* C17 witness: a ProjectInfo with two sessions of different positive sizes
C17_Witness ==
  \E j \in DOMAIN snapshot.projects :
    LET P == snapshot.projects[j]
    IN /\ Len(P.sessions) >= 2
       /\ P.sessions[1].sizeBytes > 0
       /\ P.sessions[2].sizeBytes > 0
       /\ P.sessions[1].sizeBytes # P.sessions[2].sizeBytes
       /\ P.totalSizeBytes > P.sessions[1].sizeBytes

\* The ProjectInfos of a snapshot with the given id
ProjectsWithId(data, id) == {j \in DOMAIN data.projects : data.projects[j].id = id}

\* C18: after deleteSession(S) returned success=true, a reload no longer lists S under S's
\* project, whose sessionCount is one lower than in the snapshot loaded before the call; a
\* placeholder whose only session was S is gone.
C18_ReloadReflectsDeletion ==
  \A before \in {loadAllData(last.pre)}, after \in {loadAllData(fs)} :
    (/\ last.op = "deleteSession"
     /\ last.results[1].success
     /\ ListedAt(before, last.sessions[1]) # {})
      => \A j \in ProjectsWithId(before, last.sessions[1].projectID) :
           LET P == before.projects[j]
               now == ProjectsWithId(after, P.id)
           IN /\ \A x \in DOMAIN after.sessions : after.sessions[x].id # last.sessions[1].id
              /\ IF P.placeholder /\ P.sessionCount = 1
                 THEN now = {}
                 ELSE /\ now # {}
                      /\ \A k \in now : after.projects[k].sessionCount = P.sessionCount - 1

\* C20: for every session S of a snapshot, S.isOrphan is true exactly when S.directory does
\* not exist on disk.
C20_SessionIsOrphan ==
  \A i \in DOMAIN snapshot.sessions :
    snapshot.sessions[i].isOrphan <=> snapshot.sessions[i].directory \notin fs.dirs

\* C20 witness: a snapshot with an orphan session and a session whose directory exists
C20_Witness ==
  /\ \E i \in DOMAIN snapshot.sessions :
       snapshot.sessions[i].isOrphan /\ snapshot.sessions[i].directory \notin fs.dirs
  /\ \E i \in DOMAIN snapshot.sessions :
       ~snapshot.sessions[i].isOrphan /\ snapshot.sessions[i].directory \in fs.dirs

\* --------------------------------------------------------------- C21 .. C30
\* The snapshot is the one loadAllData gives for the disk as it is now
Fresh == snapshot = loadAllData(fs)

\* C21: in a snapshot as loaded, a ProjectInfo is an orphan exactly when its worktree does
\* not exist on disk or no project record that parses backs it (a placeholder).
C21_ProjectIsOrphan ==
  Fresh =>
    \A j \in DOMAIN snapshot.projects :
      LET P == snapshot.projects[j]
      IN P.isOrphan <=> (P.worktree \notin fs.dirs \/ P.id \notin ProjIds
                         \/ fs.projRec[P.id] # "ok")

\* C21 witness: a loaded snapshot with a placeholder whose worktree exists on disk next to
\* a project record that is no orphan
C21_Witness ==
  /\ Fresh
  /\ \E j \in DOMAIN snapshot.projects :
       LET P == snapshot.projects[j]
       IN P.isOrphan /\ P.worktree \in fs.dirs /\ P.id \in ProjIds /\ fs.projRec[P.id] # "ok"
  /\ \E j \in DOMAIN snapshot.projects :
       LET P == snapshot.projects[j]
       IN ~P.isOrphan /\ P.worktree \in fs.dirs /\ fs.projRec[P.id] = "ok"

\* C21 second case: a project record whose worktree is gone is an orphan
C21_MissingWorktreeWitness ==
  /\ Fresh
  /\ \E j \in DOMAIN snapshot.projects :
       LET P == snapshot.projects[j]
       IN P.isOrphan /\ P.worktree \notin fs.dirs /\ fs.projRec[P.id] = "ok"

\* The sessions of a snapshot that carry projectID key, in the order of the session list
GroupOf(data, key) == SelectSeq(data.sessions, LAMBDA s : s.projectID = key)

\* The projectIDs carried by the sessions of a snapshot
CarriedIds(data) == {data.sessions[i].projectID : i \in DOMAIN data.sessions}

\* C22: for every projectID carried by a loaded session that matches no project record,
\* the snapshot has a placeholder ProjectInfo with that id: its worktree is the directory of
\* the first session of the group, its time.created the smallest and its time.updated the
\* largest of the group, and it is an orphan.
C22_Placeholder ==
  Fresh =>
    \A key \in CarriedIds(snapshot) \ loadProjects(fs) :
      LET group == GroupOf(snapshot, key)
          idx == DOMAIN group
      IN \E j \in DOMAIN snapshot.projects :
           LET P == snapshot.projects[j]
           IN /\ P.id = key
              /\ P.worktree = group[1].directory
              /\ \A i \in idx : P.created <= group[i].created /\ P.updated >= group[i].updated
              /\ \E i \in idx : P.created = group[i].created
              /\ \E i \in idx : P.updated = group[i].updated
              /\ P.isOrphan

\* C22 witness: a loaded snapshot with a placeholder over two sessions that differ in
\* directory and in time.created
C22_Witness ==
  /\ Fresh
  /\ \E key \in CarriedIds(snapshot) \ loadProjects(fs) :
       LET group == GroupOf(snapshot, key)
       IN /\ Len(group) >= 2
          /\ group[1].directory # group[Len(group)].directory
          /\ group[1].created # group[Len(group)].created
          /\ \E j \in DOMAIN snapshot.projects :
               snapshot.projects[j].id = key /\ snapshot.projects[j].worktree = group[1].directory

\* The positions of the ProjectInfos of a snapshot with the given id
InfosWithId(data, id) == {j \in DOMAIN data.projects : data.projects[j].id = id}

\* C23: a loaded snapshot holds exactly one ProjectInfo for each project id found among
\* the project records and the projectIDs of the sessions, and no other; its sessionCount
\* is the number of sessions it lists; a project record without sessions is there with
\* sessionCount 0, totalSizeBytes 0 and no sessions.
C23_OneInfoPerProjectId ==
  Fresh =>
    LET ids == loadProjects(fs) \cup CarriedIds(snapshot)
    IN /\ \A id \in ids : Cardinality(InfosWithId(snapshot, id)) = 1
       /\ \A j \in DOMAIN snapshot.projects :
            /\ snapshot.projects[j].id \in ids
            /\ snapshot.projects[j].sessionCount = Len(snapshot.projects[j].sessions)
            /\ snapshot.projects[j].sessions = GroupOf(snapshot, snapshot.projects[j].id)
       /\ \A id \in loadProjects(fs) \ CarriedIds(snapshot) :
            \A j \in InfosWithId(snapshot, id) :
              /\ snapshot.projects[j].sessionCount = 0
              /\ snapshot.projects[j].totalSizeBytes = 0
              /\ snapshot.projects[j].sessions = <<>>

\* C23 witness: a loaded snapshot with a project record without sessions, a project with
\* two sessions, both listed once
C23_Witness ==
  /\ Fresh
  /\ \E id \in loadProjects(fs) \ CarriedIds(snapshot) :
       \E j \in InfosWithId(snapshot, id) : snapshot.projects[j].sessionCount = 0
  /\ \E j \in DOMAIN snapshot.projects : snapshot.projects[j].sessionCount >= 1

\* The place of session file s in the order loadSessions comes across the session files
DiscoveryIndex(f, s) ==
  LET files == WalkSessionFiles(f, 1)
  IN CHOOSE i \in DOMAIN files : files[i] = s

\* C24: the sessions of a loaded snapshot are in descending order of time.updated, sessions
\* of equal time.updated in the order loadSessions discovered them; its projects are in
\* descending order of time.updated.
C24_SortedByUpdated ==
  Fresh =>
    /\ \A i, j \in DOMAIN snapshot.sessions :
         i < j =>
           LET a == snapshot.sessions[i]
               b == snapshot.sessions[j]
           IN /\ a.updated >= b.updated
              /\ a.updated = b.updated => DiscoveryIndex(fs, a.id) < DiscoveryIndex(fs, b.id)
    /\ \A i, j \in DOMAIN snapshot.projects :
         i < j => snapshot.projects[i].updated >= snapshot.projects[j].updated

\* C24 witness: a loaded snapshot in which the sort moved a session discovered later to the
\* front, kept two sessions of equal time.updated in discovery order, and moved a project
\* added later to the front
C24_Witness ==
  /\ Fresh
  /\ \E i, j \in DOMAIN snapshot.sessions :
       /\ i < j
       /\ DiscoveryIndex(fs, snapshot.sessions[i].id) > DiscoveryIndex(fs, snapshot.sessions[j].id)
  /\ \E i, j \in DOMAIN snapshot.sessions :
       i < j /\ snapshot.sessions[i].updated = snapshot.sessions[j].updated
  /\ \E i, j \in DOMAIN snapshot.projects :
       LET keys == ProjectKeys(snapshot.sessions, {})
       IN /\ i < j
          /\ \E k, l \in DOMAIN keys :
               k > l /\ keys[k] = snapshot.projects[i].id /\ keys[l] = snapshot.projects[j].id

\* The disk without the project and session files that do not parse
WithoutBadRecords(f) ==
  [f EXCEPT !.projRec = [p \in ProjIds |-> IF f.projRec[p] = "bad" THEN "absent" ELSE f.projRec[p]],
            !.sessRec = [s \in SessIds |-> IF f.sessRec[s] = "bad" THEN "absent" ELSE f.sessRec[s]]]

\* The disk without the message and part files that do not parse
WithoutBadItems(f) ==
  [f EXCEPT !.msgRec = [m \in MsgIds |-> IF f.msgRec[m] = "bad" THEN "absent" ELSE f.msgRec[m]],
            !.partRec = [q \in PartIds |-> IF f.partRec[q] = "bad" THEN "absent" ELSE f.partRec[q]]]

\* The ids of a loaded list
IdsOf(list) == {list[i].id : i \in DOMAIN list}

C25_ProjectWitness ==
  /\ Fresh
  /\ \E p \in ProjIds : fs.projRec[p] = "bad"
  /\ \E j \in DOMAIN snapshot.projects : ~snapshot.projects[j].placeholder

C25_MessageWitness ==
  /\ last.op = "loadMessages" /\ last.loaded # <<>>
  /\ \E m \in MsgIds : Owner(m) = last.sessions[1].id /\ last.pre.msgRec[m] = "bad"

C25_PartWitness ==
  /\ last.op = "loadParts" /\ last.loaded # <<>>
  /\ \E q \in PartIds : PartOwner(q) = last.pid /\ last.pre.partRec[q] = "bad"

\* The message files of a session that are on disk
JsonFilesOf(f, s) == {m \in MsgIds : Owner(m) = s /\ f.msgRec[m] # "absent"}

\* C26 as stated: for every session of a loaded snapshot, messageCount is the number of
\* files in the message directory keyed by its id, 0 when the directory does not exist.
C26_MessageCountIsFileCount ==
  Fresh =>
    \A i \in DOMAIN snapshot.sessions :
      LET S == snapshot.sessions[i]
      IN S.messageCount =
           IF fs.msgDir[S.id]
           THEN Cardinality(JsonFilesOf(fs, S.id)) + (IF fs.msgStray[S.id] THEN 1 ELSE 0)
           ELSE 0

\* C26 amended: for every session of a loaded snapshot, messageCount is the number of files
\* of the message directory keyed by its id whose name ends in ".json", whether they parse
\* or not, and 0 when the directory does not exist.
C26_MessageCountIsJsonFileCount ==
  Fresh =>
    \A i \in DOMAIN snapshot.sessions :
      LET S == snapshot.sessions[i]
      IN S.messageCount = IF fs.msgDir[S.id] THEN Cardinality(JsonFilesOf(fs, S.id)) ELSE 0

\* C26 witness: a loaded session whose message directory holds message files and a file of
\* another name, and a loaded session without message directory
C26_Witness ==
  /\ Fresh
  /\ \E i \in DOMAIN snapshot.sessions :
       LET S == snapshot.sessions[i]
       IN fs.msgDir[S.id] /\ fs.msgStray[S.id] /\ S.messageCount >= 2
  /\ \E i \in DOMAIN snapshot.sessions :
       ~fs.msgDir[snapshot.sessions[i].id] /\ snapshot.sessions[i].messageCount = 0

\* C27: deleteLog(log) returns success with bytesFreed = log.sizeBytes when the file was
\* removed or was already absent, and the file is absent afterwards; it returns no success,
\* bytesFreed 0 and an error when rm fails with an I/O error.
C27_DeleteLog ==
  last.op = "deleteLogs" =>
    \A k \in DOMAIN last.logs :
      LET log == last.logs[k]
          r == last.logResults[k]
          path == Path("log", log.filename)
      IN IF path \in locked /\ Exists(last.pre, path)
         THEN ~r.success /\ r.bytesFreed = 0 /\ r.error /\ r.filename = log.filename
         ELSE /\ r.success /\ r.bytesFreed = log.sizeBytes /\ ~r.error
              /\ r.filename = log.filename
              /\ ~Exists(fs, path)

\* C27 witness: a deleteLog of a log file that was already absent, answered with success
\* and the size of the snapshot
C27_Witness ==
  /\ last.op = "deleteLogs"
  /\ \E k \in DOMAIN last.logs :
       /\ ~Exists(last.pre, Path("log", last.logs[k].filename))
       /\ last.logResults[k].success /\ last.logResults[k].bytesFreed > 0

\* C27, the other cases: a log file removed, a log file rm cannot remove
C27_RemovedWitness ==
  /\ last.op = "deleteLogs"
  /\ \E k \in DOMAIN last.logs :
       /\ Exists(last.pre, Path("log", last.logs[k].filename))
       /\ ~Exists(fs, Path("log", last.logs[k].filename))
       /\ last.logResults[k].success

C27_FailedWitness ==
  /\ last.op = "deleteLogs"
  /\ \E k \in DOMAIN last.logs :
       /\ Exists(fs, Path("log", last.logs[k].filename))
       /\ ~last.logResults[k].success /\ last.logResults[k].error

\* The place of a kind of path in the order deleteSession removes them
Rank(kind) ==
  CASE kind = "part" -> 1
    [] kind = "message" -> 2
    [] kind = "diff" -> 3
    [] kind = "todo" -> 4
    [] kind = "session" -> 5
    [] OTHER -> 6

\* The session a path removed by deleteSession belongs to
SessionOfPath(path) == IF path.kind = "part" THEN Owner(path.id) ELSE path.id

\* The steps of a trace up to step i, the state of a removal in progress
AttemptedBefore(trace, i) == {trace[k].path : k \in 1..(i - 1)}

\* C28: in every execution of deleteSession (alone, in a batch or within deleteProject) the
\* removals of one session come in dependency order: part directories, message directory,
\* diff, todo, session record file last; at the moment the session record file is removed,
\* the removal of every other artifact of the session has been attempted.
C28_DependencyOrder ==
  last.op \in {"deleteSession", "deleteSessions", "deleteProject"} =>
    /\ \A i, j \in DOMAIN last.trace :
         LET a == last.trace[i].path
             b == last.trace[j].path
         IN i < j /\ Rank(a.kind) <= 5 /\ Rank(b.kind) <= 5
            /\ SessionOfPath(a) = SessionOfPath(b) => Rank(a.kind) <= Rank(b.kind)
    /\ \A i \in DOMAIN last.trace :
         last.trace[i].path.kind = "session" =>
           ArtifactsOf(last.pre, last.trace[i].path.id) \ {last.trace[i].path}
             \subseteq AttemptedBefore(last.trace, i)

\* C28 witness: a deleteSession that removed two part directories, the message directory,
\* the diff, the todo and then the session record file
C28_Witness ==
  /\ last.op = "deleteSession"
  /\ Len(StepsOfKind(last.trace, "part")) >= 2
  /\ Len(last.trace) = Len(StepsOfKind(last.trace, "part")) + 4
  /\ last.trace[Len(last.trace)].path.kind = "session"
  /\ last.trace[Len(last.trace)].ok
  /\ ~Exists(fs, last.trace[Len(last.trace)].path)

\* The places of the removals of paths of one kind in a trace
PlacesOfKind(trace, kind) == {i \in DOMAIN trace : trace[i].path.kind = kind}

\* C29: deleteProject(P) removes the project record file only after deleteSession has been
\* attempted on every session of P.sessions, removes the session directory and then the
\* snapshot directory after the project record file, and cleans the frecency file only
\* after these removals.
C29_ProjectOrder ==
  last.op = "deleteProject" =>
    LET project == PlacesOfKind(last.trace, "project")
        sessiondir == PlacesOfKind(last.trace, "sessiondir")
        snapshots == PlacesOfKind(last.trace, "snapshot")
    IN /\ Cardinality(project) = 1
       /\ Len(last.results) = Len(last.sessions)
       /\ \A k \in DOMAIN last.results : last.results[k].sessionID = last.sessions[k].id
       /\ \A i \in DOMAIN last.trace, j \in project : Rank(last.trace[i].path.kind) <= 5 => i < j
       /\ \A i \in project, j \in sessiondir : i < j
       /\ \A i \in sessiondir, j \in snapshots : i < j
       /\ snapshots # {} => sessiondir # {}
       /\ (fs.frecency # last.pre.frecency \/ last.res.frecencyEntriesRemoved > 0) =>
            Cardinality(sessiondir) = 1 /\ Cardinality(snapshots) = 1

\* C29 witness: a deleteProject of a project with two sessions, both removed, followed by
\* the project record file, the session directory, the snapshot directory, and a frecency
\* file that lost entries
C29_Witness ==
  /\ last.op = "deleteProject"
  /\ Len(StepsOfKind(last.trace, "session")) >= 2
  /\ Len(last.trace) >= 3
  /\ last.trace[Len(last.trace)].path.kind = "snapshot"
  /\ last.res.frecencyEntriesRemoved > 0
  /\ fs.frecency # last.pre.frecency

\* C30: a deleteSession(S) called when none of the artifacts of S exists on disk (a second
\* call right after a successful one) returns success and leaves the disk as it was.
C30_DeleteSessionIdempotent ==
  (/\ last.op = "deleteSession"
   /\ \A path \in ArtifactsOf(last.pre, last.sessions[1].id) : ~Exists(last.pre, path)) =>
    /\ last.results[1].success
    /\ ~last.results[1].error
    /\ fs = last.pre

\* C30 for sessions that carry an id and a projectID
C30_IdempotentWithProjectId ==
  (/\ last.op = "deleteSession"
   /\ last.sessions[1].projectID # NoId
   /\ \A path \in ArtifactsOf(last.pre, last.sessions[1].id) : ~Exists(last.pre, path)) =>
    /\ last.results[1].success
    /\ fs = last.pre

\* A second deleteSession on a session of the snapshot of which nothing is left on disk
C30_SecondCall ==
  /\ last.op = "deleteSession"
  /\ calls = 2
  /\ last.sessions[1].projectID # NoId
  /\ \A path \in ArtifactsOf(last.pre, last.sessions[1].id) : ~Exists(last.pre, path)
  /\ Len(last.trace) = 4
  /\ last.results[1].success

\* --------------------------------------------------------------- C31 .. C39
\* Is path the directory dir or a path beneath it?
AtOrBeneath(path, dir) ==
  \/ path = dir
  \/ StartsWith(path, IF dir[Len(dir)] = "/" THEN dir ELSE dir \o <<"/">>)

\* The entries a call took out of the frecency file
EntriesRemoved ==
  {last.pre.frecency.lines[i] : i \in DOMAIN last.pre.frecency.lines}
    \ {fs.frecency.lines[i] : i \in DOMAIN fs.frecency.lines}

\* C31: deleteProject and cleanupEmptyProject remove from the frecency file only entries
\* whose path is the worktree of the project or lies beneath it; the entries of any other
\* directory stay.
C31_FrecencyFrame ==
  last.op \in {"deleteProject", "cleanupEmptyProject"} =>
    \A line \in EntriesRemoved :
      line.kind = "entry" => AtOrBeneath(line.path, last.worktree)

\* The entries at or beneath the worktree are removed by such a call
C31_EntriesOfWorktreeRemoved ==
  /\ last.op \in {"deleteProject", "cleanupEmptyProject"}
  /\ \E line \in EntriesRemoved : line.kind = "entry" /\ AtOrBeneath(line.path, last.worktree)

\* C32: when deleteProject(P) has removed a session record file, the message directory,
\* the part directories, the diff and the todo of that session are gone as well.
C32_NoDataWithoutRecord ==
  last.op = "deleteProject" =>
    \A s \in SessIds :
      Exists(last.pre, Path("session", s)) /\ ~Exists(fs, Path("session", s)) =>
        \A path \in ArtifactsOf(last.pre, s) : ~Exists(fs, path)

\* A deleteProject that removed the session record files together with their data
C32_SessionsRemovedWithData ==
  /\ last.op = "deleteProject"
  /\ Len(last.sessions) >= 2
  /\ \A k \in DOMAIN last.sessions :
       /\ Exists(last.pre, Path("session", last.sessions[k].id))
       /\ \A path \in ArtifactsOf(last.pre, last.sessions[k].id) : ~Exists(fs, path)
  /\ \E k \in DOMAIN last.sessions : Exists(last.pre, Path("message", last.sessions[k].id))

\* The selected session items whose project is selected as well
SelectedWithParent ==
  {k \in DOMAIN ui.done.selected :
     /\ ui.done.selected[k].type = "session"
     /\ \E j \in DOMAIN ui.done.selected :
          /\ ui.done.selected[j].type = "project"
          /\ ui.done.selected[j].project.id = ui.done.selected[k].project.id}

\* Not one of them is handed to deleteSessions
C37_NotDeletedSeparately ==
  \A k \in SelectedWithParent :
    \A i \in DOMAIN ui.done.sessions :
      ui.done.sessions[i].id # ItemSession(ui.done.selected[k]).id

\* cleanupEmptyProject was called once for every projectID of the sessions handed to
\* deleteSessions, and for nothing else
C37_CleanupOncePerProject ==
  LET ids == {ui.done.sessions[i].projectID : i \in DOMAIN ui.done.sessions}
  IN /\ \A pid \in ids :
          Cardinality({i \in DOMAIN ui.done.cleaned : ui.done.cleaned[i] = pid}) = 1
     /\ \A i \in DOMAIN ui.done.cleaned : ui.done.cleaned[i] \in ids

C34_OneJobAtATime ==
  /\ Len(ui.jobs) <= 1
  /\ ui.jobs # <<>> => ui.isLoading /\ ~Accepts(ui)

\* A delete is running, and after it the reload that belongs to it
C34_Witness ==
  /\ Len(ui.jobs) = 1
  /\ ui.jobs[1].phase = "delete"
  /\ ui.isLoading

C34_ReloadWitness ==
  /\ Len(ui.jobs) = 1
  /\ ui.jobs[1].phase = "reload"
  /\ ui.jobs[1].dialog # 0
  /\ ui.isLoading

\* The dialogs on the controller stack
OpenDialogs == {i \in DOMAIN ui.stack : ui.stack[i].kind = "confirm"}

\* C35: the items deleted on confirmation are exactly the items the dialog described:
\* while a dialog is open the view is the one it was opened in and the items at its
\* indices are the ones it described, and the delete it started worked on these items.
C35_DeletedAsDescribed ==
  /\ \A i \in OpenDialogs :
       /\ ui.view = ui.stack[i].view
       /\ KeysOf(ui.view, ItemsAt(Items, ui.stack[i].indices)) = ui.stack[i].described
  /\ ui.done.dialog # 0 => KeysOf(ui.done.view, ui.done.selected) = ui.done.described

\* A session under an expanded project was deleted on confirmation
C35_Witness ==
  /\ ui.done.dialog # 0
  /\ ui.done.view \in {"main", "orphans"}
  /\ Len(ui.done.described) = 1
  /\ ui.done.described[1].type = "session"
  /\ KeysOf(ui.done.view, ui.done.selected) = ui.done.described

\* Several selected logs were deleted on confirmation
C35_LogsWitness ==
  /\ ui.done.dialog # 0
  /\ ui.done.view = "logs"
  /\ Len(ui.done.described) > 1
  /\ ui.done.logs = ui.done.selected

\* A log viewer came up over an open dialog
C35_ViewerOverDialog ==
  /\ OpenDialogs # {}
  /\ Top(ui).kind = "logViewer"

\* The running deletes, and the dialogs on the stack with serial number n
Deleting(u) == {j \in DOMAIN u.jobs : u.jobs[j].phase = "delete"}
OnStack(u, n) == {i \in DOMAIN u.stack : u.stack[i].kind = "confirm" /\ u.stack[i].dialog = n}

\* C36: a delete is executed only in response to a confirm-yes action on an open
\* confirmation dialog and at most once per dialog; a confirm-no or Esc action closes the
\* dialog without deleting anything.  Step by step: an onConfirm runs only for the dialog
\* on top of the stack, which was not confirmed before and is closed by the step; a delete
\* starts only with an onConfirm; the disk changes only under a delete started by a
\* confirmed dialog; a dialog that goes without an onConfirm leaves disk and jobs alone.
C36_DeleteOnlyOnConfirm ==
  [][/\ ui'.confirmed # ui.confirmed =>
          /\ Accepts(ui)
          /\ Top(ui).kind = "confirm"
          /\ ui'.confirmed = Append(ui.confirmed, Top(ui).dialog)
          /\ \A k \in DOMAIN ui.confirmed : ui.confirmed[k] # Top(ui).dialog
          /\ OnStack(ui', Top(ui).dialog) = {}
          /\ Cardinality(Deleting(ui')) = Cardinality(Deleting(ui)) + 1
     /\ Cardinality(Deleting(ui')) > Cardinality(Deleting(ui)) => ui'.confirmed # ui.confirmed
     /\ fs' # fs =>
          \E j \in Deleting(ui) :
            /\ \E k \in DOMAIN ui.confirmed : ui.confirmed[k] = ui.jobs[j].dialog
            /\ j \notin Deleting(ui') \/ Len(ui'.jobs) < Len(ui.jobs)
     /\ (OpenDialogs # {} /\ Len(ui'.stack) < Len(ui.stack) /\ ui'.confirmed = ui.confirmed) =>
          fs' = fs /\ ui'.jobs = ui.jobs /\ ui'.done = ui.done
    ]_vars

\* A dialog was confirmed, the delete it started has run and has removed something
C36_Witness ==
  /\ ui.confirmed # <<>>
  /\ ui.done.dialog = ui.confirmed[Len(ui.confirmed)]
  /\ ui.done.selected # <<>>
  /\ Deleting(ui) = {}
  /\ fs # last.pre

\* C38: the detail viewer overlay is visible only while a ProjectViewerController or a
\* SessionViewerController is on the controller stack; going back while the onEnter of a
\* viewer is still loading never leaves the overlay displayed after the controller was
\* popped.
C38_OverlayOnlyWithViewer ==
  ui.detailVisible =>
    \E i \in DOMAIN ui.stack : ui.stack[i].kind \in {"projectViewer", "sessionViewer"}

\* C39: the controller stack is never empty, popController never removes the root
\* controller, and after any sequence of key actions the root controller is the controller
\* of the current view.
C39_RootIsCurrentView ==
  /\ Len(ui.stack) >= 1
  /\ ui.stack[1].kind = ui.view
  /\ \A i \in DOMAIN ui.stack : i > 1 => ui.stack[i].kind \notin {VIEW_ORDER[k] : k \in DOMAIN VIEW_ORDER}

\* The view was switched and a controller pushed over its root has been popped again
\* while the onEnter of that controller had not finished
C39_Witness ==
  /\ ui.view = "orphans"
  /\ Len(ui.stack) = 1
  /\ \E i \in DOMAIN ui.entering : ui.entering[i].kind = "detail"

\* A controller is open over the root of a view other than the first
C39_DeepWitness ==
  /\ ui.view = "logs"
  /\ Len(ui.stack) > 1

====
